---- MODULE Spec2Model ----
(***************************************************************************)
(* Verification model of four parts of the prover:                         *)
(*   - Saturation::Splitter (doSplitting, getPropPredName,                 *)
(*     insertIntoIndex, handleNoSplit), src/Kernel/Term.hpp:813-1196,      *)
(*     specification Spec;                                                 *)
(*   - the component scan of doSplitting, lines 827-846, one variable      *)
(*     occurrence at a time, specification SpecComp;                       *)
(*   - ConjunctionGoalAnswerExractor::SubstBuilder and tryGetAnswer,       *)
(*     src/Shell/AnswerExtractor.cpp:93-260, specification SpecGoal;       *)
(*   - AnswerLiteralManager, src/Shell/AnswerExtractor.cpp:276-443,        *)
(*     specification SpecAns.                                              *)
(* Propositional parts are canonical Boolean functions (what a reduced     *)
(* ordered, hash-consed BDD node denotes), represented by their sets of    *)
(* satisfying assignments, so node identity is function equality.          *)
(***************************************************************************)
EXTENDS Integers, Sequences, FiniteSets, TLC

(* ------------------------------ bounds --------------------------------- *)
\* number of BDD variables BDD::getNewVar may hand out in one run
MaxVars == 3
\* number of splitter calls in one run
MaxCalls == 2
\* number of literals of a clause whose components are computed
MaxLits == 3
\* number of goal literals of the conjecture
MaxGoals == 2
\* number of literals in the lemma index
MaxLemmas == 3
\* number of units in the list given to addAnswerLiterals
MaxUnits == 2
\* number of answer clauses the manager captures, over the runs it serves
MaxAnswers == 2
\* number of units in the inference store handed to getNeededUnits
MaxProof == 3
\* the most units a proof handed to the interpolation pass has
MaxNodes == 4
\* the most SAT clauses handed to ClauseSharing::insert
MaxInserts == 3
\* the most helper objects and the most FBHelperCore objects ever made
MaxHelpers == 3
MaxCores == 2

(* ------------------------- sequence helpers ---------------------------- *)
Range(s) == {s[i] : i \in 1..Len(s)}

RECURSIVE SetToSeq(_)
SetToSeq(S) ==
  IF S = {} THEN <<>>
  ELSE LET m == CHOOSE x \in S : \A y \in S : x <= y
       IN <<m>> \o SetToSeq(S \ {m})

Reverse(s) == [i \in 1..Len(s) |-> s[Len(s) + 1 - i]]

(* ------------------------------- BDD ----------------------------------- *)
BDDVars == 1..MaxVars
Assignments == SUBSET BDDVars
getTrue == Assignments
getFalse == {}
getAtomic(n, positive) == {a \in Assignments : (n \in a) = positive}
conjunction(x, y) == x \cap y
disjunction(x, y) == x \cup y
isTrue(x) == x = getTrue
isFalse(x) == x = getFalse

(* --------------------------- literals ---------------------------------- *)
\* A splitter literal: predicate, polarity, arguments; an argument is 0 (the
\* constant a) or k >= 1 (the variable Xk).
Lit(p, pos, args) == [pred |-> p, pos |-> pos, args |-> args]
arity(l) == Len(l.args)
isPositive(l) == l.pos
isNegative(l) == ~l.pos

SVars == 1..3
SVarPerms == {f \in [SVars -> SVars] : \A x, y \in SVars : f[x] = f[y] => x = y}
RenameLit(l, f) ==
  [l EXCEPT !.args = [k \in 1..Len(l.args) |->
                        IF l.args[k] = 0 THEN 0 ELSE f[l.args[k]]]]
IdxPerms(n) == {g \in [1..n -> 1..n] : \A x, y \in 1..n : g[x] = g[y] => x = y}

\* ClauseVariantIndex: equality of literal multisets up to variable renaming
isVariant(c, d) ==
  /\ Len(c) = Len(d)
  /\ \E f \in SVarPerms : \E g \in IdxPerms(Len(c)) :
       \A i \in 1..Len(c) : RenameLit(c[i], f) = d[g[i]]

(* ---------------- component decomposition (union-find) ----------------- *)
\* IntUnionFind over literal positions 1..n: root[i] is the representative
UFInit(n) == [i \in 1..n |-> i]
doUnion(uf, a, b) ==
  LET ra == uf[a]
      rb == uf[b]
      r == IF ra <= rb THEN ra ELSE rb
  IN [i \in DOMAIN uf |-> IF uf[i] = ra \/ uf[i] = rb THEN r ELSE uf[i]]

\* IntUnionFind::ComponentIterator / ElementIterator: the components, each
\* a sequence of literal positions
UFComponents(uf) ==
  LET roots == {uf[i] : i \in DOMAIN uf}
  IN [k \in 1..Cardinality(roots) |->
        SetToSeq({i \in DOMAIN uf : uf[i] = SetToSeq(roots)[k]})]

\* The variable occurrences of a clause in the order doSplitting visits
\* them: pairs <<literal position, argument position>> holding a variable.
RECURSIVE OccsFrom(_, _, _)
OccsFrom(lits, i, j) ==
  IF i > Len(lits) THEN <<>>
  ELSE IF j > Len(lits[i].args) THEN OccsFrom(lits, i + 1, 1)
  ELSE IF lits[i].args[j] = 0 THEN OccsFrom(lits, i, j + 1)
  ELSE <<(<<i, j>>)>> \o OccsFrom(lits, i, j + 1)
VarOccs(lits) == OccsFrom(lits, 1, 1)

\* mutant of VarStep: the variable's master is recorded but never united
VarStepNoUnion(st, v, i) ==
  IF v \in DOMAIN st.varMasters THEN st
  ELSE [st EXCEPT !.varMasters = [x \in DOMAIN st.varMasters \cup {v} |->
                      IF x = v THEN i ELSE st.varMasters[x]]]

\* one pass of the inner loop: findOrInsert(var, i), then doUnion(master, i)
VarStep(st, v, i) ==
  IF v \in DOMAIN st.varMasters
  THEN IF st.varMasters[v] # i
       THEN [st EXCEPT !.uf = doUnion(st.uf, st.varMasters[v], i)]
       ELSE st
  ELSE [st EXCEPT !.varMasters = [x \in DOMAIN st.varMasters \cup {v} |->
                      IF x = v THEN i ELSE st.varMasters[x]]]

EmptyMap == [x \in {} |-> 0]
UFStart(lits) == [varMasters |-> EmptyMap, uf |-> UFInit(Len(lits))]

RECURSIVE ScanOccs(_, _, _, _)
ScanOccs(st, lits, occs, k) ==
  IF k > Len(occs) THEN st
  ELSE ScanOccs(VarStep(st, lits[occs[k][1]].args[occs[k][2]], occs[k][1]),
                lits, occs, k + 1)

\* the components of a clause as doSplitting computes them
ComponentsOf(lits) == UFComponents(ScanOccs(UFStart(lits), lits, VarOccs(lits), 1).uf)

CompLits(lits, c) == [i \in 1..Len(c) |-> lits[c[i]]]

(* ------------------------- the clauses split --------------------------- *)
P0 == Lit("p", TRUE, <<>>)
NP0 == Lit("p", FALSE, <<>>)
R0 == Lit("r", TRUE, <<>>)
Q(t) == Lit("q", TRUE, <<t>>)
S(t) == Lit("s", TRUE, <<t>>)
T(t, u) == Lit("t", TRUE, <<t, u>>)

InputClauses ==
  { <<>>, <<P0>>, <<NP0>>, <<R0>>, <<Q(1)>>, <<Q(2)>>, <<Q(0)>>,
    <<Q(1), S(2)>>, <<Q(1), Q(2)>>, <<P0, Q(1)>>, <<P0, R0>>, <<P0, NP0>>,
    <<Q(1), T(1, 2), S(2)>>, <<S(1), S(2), Q(3)>>, <<Q(0), S(1)>> }
\* the clauses handed to the splitter, with their input type
Inputs == (InputClauses \X {"AXIOM"})
            \cup {<<(<<P0>>), "CONJECTURE">>, <<(<<Q(1), S(2)>>), "CONJECTURE">>,
                  <<(<<P0, R0>>), "CONJECTURE">>}

\* every literal sequence that can be a clause or a component, and for each
\* the representative of its variant class
ClauseUniverse ==
  InputClauses
    \cup UNION {{CompLits(c, ComponentsOf(c)[k]) : k \in 1..Len(ComponentsOf(c))} : c \in InputClauses}
    \cup UNION {{Reverse(CompLits(c, ComponentsOf(c)[k])) : k \in 1..Len(ComponentsOf(c))} : c \in InputClauses}
\* (tables are built once: @@ yields an explicit function)
VariantClass ==
  [c \in ClauseUniverse |-> CHOOSE r \in ClauseUniverse : isVariant(r, c)] @@ EmptyMap

\* the components of each clause
Components == [c \in ClauseUniverse |-> ComponentsOf(c)] @@ EmptyMap
SplitInputs == {in \in Inputs : Len(Components[in[1]]) > 1}
NoSplitInputs == {in \in Inputs : Len(Components[in[1]]) <= 1}

(* ------------------------- splitter state ------------------------------ *)
VARIABLES
  clauses,                  \* the clause objects the splitter retains: id -> [lits, prop]
  variantIndex,             \* Splitter::_variantIndex: set of clause ids
  clauseNames,              \* Splitter::_clauseNames: clause id -> BDD variable
  propPredNames,            \* Splitter::_propPredNames: predicate -> BDD variable
  propPredPosNamePremises,  \* predicate -> id of the naming premise of its positive literal
  propPredNegNamePremises,  \* predicate -> id of the naming premise of its negative literal
  nextVar,                  \* BDD: the variable the next getNewVar returns
  calls,                    \* number of splitter calls made
  last                      \* what the last call was given, emitted, created and recorded

splitVars == <<clauses, variantIndex, clauseNames, propPredNames,
               propPredPosNamePremises, propPredNegNamePremises, nextVar, calls, last>>

(* ------------------ state of the component scan ------------------------ *)
VARIABLES
  scanned,      \* the literals of the clause whose components are computed
  varMasters,   \* doSplitting's varMasters: variable -> first literal holding it
  components,   \* doSplitting's IntUnionFind: literal position -> representative
  occ,          \* number of variable occurrences the loop has visited
  finished      \* components.finish() was called

compVars == <<scanned, varMasters, components, occ, finished>>

(* ------------- state of the answer-literal manager -------------------- *)
VARIABLES
  units,            \* the unit list given to addAnswerLiterals
  signature,        \* env.signature: the predicates added, with arity and answer mark
  answers,          \* AnswerLiteralManager::_answers
  resolverClauses,  \* AnswerLiteralManager::_resolverClauses: predicate -> clause
  refutation,       \* the refutation thrown by onNewClause, <<>> if none, else <<unit>>
  unitsMade,        \* the units the manager has created
  passes,           \* number of passes of addAnswerLiterals
  seen,             \* the clause last handed to onNewClause, <<>> if none, else <<clause>>
  direct            \* the last call of AnswerLiteralManager::tryGetAnswer

ansVars ==
  <<units, signature, answers, resolverClauses, refutation, unitsMade, passes, seen, direct>>

(* ------------- state of the conjunctive goal search -------------------- *)
VARIABLES
  goalLits,         \* SubstBuilder::_goalLits
  lemmas,           \* the lemma index, in the order its iterators return literals
  answerVariables,  \* tryGetAnswer's answerVariables
  subst,            \* the RobSubstitution: bound variable (with bank) -> term (with bank)
  bdStack,          \* the stack of recordings of subst: depths whose _btData records
  btData,           \* SubstBuilder::_btData: per depth, the variables bound while it recorded
  unifIts,          \* SubstBuilder::_unifIts: per depth, the lemmas not yet returned
  triedEqUnif,      \* SubstBuilder::_triedEqUnif
  depth,            \* SubstBuilder::_depth
  pc,               \* where tryGetAnswer is: "start", "loop", "returned", "answered"
  result,           \* what run returned: "none", "true", "false"
  answer            \* tryGetAnswer's answer stack

goalVars == <<goalLits, lemmas, answerVariables, subst, bdStack, btData, unifIts,
              triedEqUnif, depth, pc, result, answer>>

(* ------------- state of AnswerExtractor::getNeededUnits ---------------- *)
VARIABLES
  store,            \* the inference store: unit -> its rule, its kind and its parents
  toDo,             \* getNeededUnits' toDo stack (top at the end)
  seenUnits,        \* getNeededUnits' seen set
  premiseClauses,   \* the premise clauses collected
  conjectures,      \* the conjectures collected
  expanded,         \* the units whose parents were asked for, in order
  cpc               \* where tryGetAnswer is: "idle", "collect", "collected", "rejected", "search"

collectVars == <<store, toDo, seenUnits, premiseClauses, conjectures, expanded, cpc>>

(* ------------------ state of Shell::InterpolantsNew -------------------- *)
VARIABLES
  proof,            \* the proof DAG: unit -> its parents (in order) and its own colour
  inheritedColor,   \* Unit::inheritedColor of each unit
  stack,            \* computeSplittingFunction's DFS stack (top at the end)
  timesColoured,    \* how often setInheritedColor was called on each unit
  failedAssert,     \* the first assertion that did not hold: "none" or its name
  unitsToRepresentative, \* the union-find map: unit -> its representative, 0 if it has none
  queue,            \* computeSubproofs' BFS queue (front first)
  processed,        \* computeSubproofs' processed set
  bottomBoundaries, \* computeBoundaries' unitsToBottomBoundaries: (representative, unit)
  topBoundaries,    \* computeBoundaries' unitsToTopBoundaries: (representative, unit)
  ipc               \* where the pass is: "idle", "colouring", "coloured", "subproofs",
                    \* "boundaries", "aborted"

interpVars == <<proof, inheritedColor, stack, timesColoured, failedAssert,
                unitsToRepresentative, queue, processed, bottomBoundaries,
                topBoundaries, ipc>>

(* -------------------- state of SAT::ClauseSharing ---------------------- *)
VARIABLES
  satClauses,       \* the SATClause objects made: literals, the word behind them, destroyed
  storage,          \* ClauseSharing::_storage: the clauses kept
  res               \* what the last insert returned, 0 before the first

shareVars == <<satClauses, storage, res>>

(* ------------------ state of the Api helper objects -------------------- *)
VARIABLES
  helpers,          \* the ApiHelper objects: live, and _obj (0 for the null pointer)
  cores,            \* the FBHelperCore objects made: _refCtr, deleted
  helperOp          \* the last operation on a helper, and its operands

helperVars == <<helpers, cores, helperOp>>

\* the state of the parts after the interpolation pass
afterInterp == <<shareVars, helperVars>>
\* the state of the parts after getNeededUnits
afterCollect == <<interpVars, afterInterp>>
\* the state of the parts added after the four above
laterVars == <<collectVars, afterCollect>>

MapPut(m, k, v) == [z \in DOMAIN m \cup {k} |-> IF z = k THEN v ELSE m[z]]

\* a unit with the propositional part it had at some moment (UnitSpec);
\* id 0 is the clause handed to the splitter, id -1 the clause that replaces a
\* propositional unit, ids >= 1 are retained clause objects
US(id, lits, prop) == [id |-> id, lits |-> lits, prop |-> prop]
USOf(s, id) == US(id, s.clauses[id].lits, s.clauses[id].prop)

\* the working state of one call: the splitter's fields plus what the call
\* created (units) and recorded in the inference store
Work == [clauses |-> clauses, variantIndex |-> variantIndex, clauseNames |-> clauseNames,
         propPredNames |-> propPredNames,
         propPredPosNamePremises |-> propPredPosNamePremises,
         propPredNegNamePremises |-> propPredNegNamePremises,
         nextVar |-> nextVar, created |-> <<>>, recs |-> <<>>]

\* a unit created by the call, as its constructor builds it
Created(id, lits, inputType, rule, parents) ==
  [id |-> id, lits |-> lits, inputType |-> inputType, rule |-> rule, parents |-> parents]
\* an entry of the inference store: the unit with its new propositional part,
\* the rule, and the premises with the propositional parts they had
Rec(kind, unit, rule, premises) ==
  [kind |-> kind, unit |-> unit, rule |-> rule, premises |-> premises]

\* ClauseVariantIndex::retrieveVariants
retrieveVariants(s, lits) ==
  {c \in s.variantIndex : VariantClass[s.clauses[c].lits] = VariantClass[lits]}
FirstOf(ids) == CHOOSE c \in ids : \A d \in ids : c <= d

(* ------------------------- getPropPredName ----------------------------- *)
\* lines 1072-1077: the name of the predicate, allocated on first use
\* mutant of AllocPropName: the variable given to the predicate is not used up
AllocPropNameNoAdvance(s, pred) ==
  IF pred \in DOMAIN s.propPredNames THEN s
  ELSE [s EXCEPT !.propPredNames = MapPut(@, pred, s.nextVar)]

AllocPropName(s, pred) ==
  IF pred \in DOMAIN s.propPredNames THEN s
  ELSE [s EXCEPT !.propPredNames = MapPut(@, pred, s.nextVar), !.nextVar = @ + 1]

PremisesOf(s, lit) ==
  IF isPositive(lit) THEN s.propPredPosNamePremises ELSE s.propPredNegNamePremises

\* lines 1086-1092: the naming premise {lit} with part atomic(name, lit negative)
NewNamingPremise(s, lit, name, id) ==
  [s EXCEPT
     !.clauses = Append(@, [lits |-> <<lit>>, prop |-> getAtomic(name, isNegative(lit))]),
     !.propPredPosNamePremises = IF isPositive(lit) THEN MapPut(@, lit.pred, id) ELSE @,
     !.propPredNegNamePremises = IF isPositive(lit) THEN @ ELSE MapPut(@, lit.pred, id),
     !.created = Append(@, Created(id, <<lit>>, "AXIOM", "CLAUSE_NAMING", <<>>)),
     !.recs = Append(@, Rec("nonProp", US(id, <<lit>>, getAtomic(name, isNegative(lit))),
                            "CLAUSE_NAMING", <<>>))]

\* mutant of NamePremise: a naming premise is built on every call
NamePremiseFresh(s, lit) ==
  [s |-> NewNamingPremise(s, lit, s.propPredNames[lit.pred], Len(s.clauses) + 1),
   name |-> s.propPredNames[lit.pred], premise |-> Len(s.clauses) + 1]

\* lines 1079-1093, with the name allocated; result: state, name, premise (id)
NamePremise(s, lit) ==
  IF lit.pred \in DOMAIN PremisesOf(s, lit)
  THEN [s |-> s, name |-> s.propPredNames[lit.pred], premise |-> PremisesOf(s, lit)[lit.pred]]
  ELSE [s |-> NewNamingPremise(s, lit, s.propPredNames[lit.pred], Len(s.clauses) + 1),
        name |-> s.propPredNames[lit.pred], premise |-> Len(s.clauses) + 1]

getPropPredName(s, lit) == NamePremise(AllocPropName(s, lit.pred), lit)

(* -------------------------- insertIntoIndex ---------------------------- *)
\* mutant of MergeInto: a merge is made and reported also when the part of
\* the variant stays as it is
MergeIntoAlways(s, comp, cl) ==
  [s |-> [s EXCEPT
            !.clauses[comp].prop = conjunction(@, cl.prop),
            !.recs = Append(@, Rec("merge",
                       US(comp, s.clauses[comp].lits,
                          conjunction(s.clauses[comp].prop, cl.prop)),
                       "MERGE", <<USOf(s, comp), cl>>))],
   res |-> comp, newInserted |-> FALSE, modified |-> TRUE]

\* lines 1111-1130: a variant comp is indexed
MergeInto(s, comp, cl) ==
  IF s.clauses[comp].prop = conjunction(s.clauses[comp].prop, cl.prop)
  THEN [s |-> s, res |-> comp, newInserted |-> FALSE, modified |-> FALSE]
  ELSE [s |-> [s EXCEPT
                 !.clauses[comp].prop = conjunction(@, cl.prop),
                 !.recs = Append(@, Rec("merge",
                            US(comp, s.clauses[comp].lits,
                               conjunction(s.clauses[comp].prop, cl.prop)),
                            "MERGE", <<USOf(s, comp), cl>>))],
        res |-> comp, newInserted |-> FALSE, modified |-> TRUE]

\* mutant of insertIntoIndex: the clause is inserted without a variant lookup
insertIntoIndexNoLookup(s, cl) ==
  [s |-> [s EXCEPT !.clauses = Append(@, [lits |-> cl.lits, prop |-> cl.prop]),
                   !.variantIndex = @ \cup {Len(s.clauses) + 1}],
   res |-> Len(s.clauses) + 1, newInserted |-> TRUE, modified |-> FALSE]

\* cl is a unit not yet retained (id 0 or -1); result: the state, the clause
\* returned (id), newInserted, modified
insertIntoIndex(s, cl) ==
  IF retrieveVariants(s, cl.lits) # {}
  THEN MergeInto(s, FirstOf(retrieveVariants(s, cl.lits)), cl)
  ELSE [s |-> [s EXCEPT !.clauses = Append(@, [lits |-> cl.lits, prop |-> cl.prop]),
                        !.variantIndex = @ \cup {Len(s.clauses) + 1}],
        res |-> Len(s.clauses) + 1, newInserted |-> TRUE, modified |-> FALSE]

(* --------------------------- handleNoSplit ----------------------------- *)
\* What a call hands back: the state, the two iterators (units with the
\* propositional parts they have when the call returns), the master clause
\* (0 if there is none), the clauses whose names were used, and whether the
\* clause was discarded.
Outcome(s, newComponents, modifiedComponents, master, masterNew, namingPremises, discarded, asserts) ==
  [s |-> s, newComponents |-> newComponents, modifiedComponents |-> modifiedComponents,
   master |-> master, masterNew |-> masterNew, namingPremises |-> namingPremises,
   discarded |-> discarded, asserts |-> asserts]

\* a clause pointer as a unit with the propositional part it has now
Deref(s, cl, id) == IF id = 0 THEN cl ELSE USOf(s, id)
Units(s, cl, ids) == [i \in 1..Len(ids) |-> Deref(s, cl, ids[i])]

\* mutant of ReplacedProp: the polarity of the name is flipped
ReplacedPropFlipped(name, lit) == getAtomic(name, isNegative(lit))

\* line 1158: the propositional part given to the 0-literal replacement
ReplacedProp(name, lit) == getAtomic(name, isPositive(lit))

\* mutant of RefutationEmitted: the refutation is not handed back
RefutationDropped(s, cl, insCl, naming) ==
  Outcome(s, <<>>, <<>>, insCl, FALSE, Units(s, cl, naming), FALSE, {})

\* lines 1186-1191: the refutation is handed back as a new clause
RefutationEmitted(s, cl, insCl, naming) ==
  Outcome([s EXCEPT !.recs = Append(@, Rec("merge",
                       US(cl.id, cl.lits, s.clauses[insCl].prop), "MERGE",
                       <<cl, USOf(s, insCl)>>))],
          <<US(cl.id, cl.lits, s.clauses[insCl].prop)>>, <<>>,
          insCl, FALSE, Units(s, cl, naming), FALSE, {})

\* lines 1180-1195, r the result of insertIntoIndex
EmitNoSplit(r, cl, naming) ==
  IF r.newInserted
  THEN Outcome(r.s, <<USOf(r.s, r.res)>>, <<>>, r.res, TRUE, Units(r.s, cl, naming), FALSE, {})
  ELSE IF r.modified
  THEN IF r.s.clauses[r.res].lits = <<>> /\ isFalse(r.s.clauses[r.res].prop)
       THEN RefutationEmitted(r.s, cl, r.res, naming)
       ELSE Outcome(r.s, <<>>, <<USOf(r.s, r.res)>>, r.res, FALSE,
                    Units(r.s, cl, naming), FALSE, {})
  ELSE Outcome(r.s, <<>>, <<>>, r.res, FALSE, Units(r.s, cl, naming), FALSE, {})

\* lines 1149-1174: a propositional unit clause is replaced by a 0-literal
\* clause; g is the result of getPropPredName
ReplaceUnit(g, cl, inputType) ==
  EmitNoSplit(
    insertIntoIndex(
      [g.s EXCEPT
         !.created = Append(@, Created(-1, <<>>, inputType, "SPLITTING",
                                       <<cl, USOf(g.s, g.premise)>>)),
         !.recs = Append(@, Rec("nonProp", US(-1, <<>>, ReplacedProp(g.name, cl.lits[1])),
                                "SPLITTING", <<cl, USOf(g.s, g.premise)>>))],
      US(-1, <<>>, ReplacedProp(g.name, cl.lits[1]))),
    US(-1, <<>>, ReplacedProp(g.name, cl.lits[1])), <<g.premise>>)

handleNoSplit(s, cl, inputType) ==
  IF Len(cl.lits) = 1 /\ arity(cl.lits[1]) = 0
  THEN ReplaceUnit(getPropPredName(s, cl.lits[1]), cl, inputType)
  ELSE EmitNoSplit(insertIntoIndex(s, cl), cl, <<>>)

(* ---------------------------- doSplitting ------------------------------ *)
\* the locals of doSplitting; stacks are sequences with the top at the end,
\* clause pointers are ids (0 = cl, the clause being split; masterComp 0 = null)
Locals(s, cl, compCnt) ==
  [s |-> s, newMasterProp |-> cl.prop, masterPremises |-> <<0>>,
   unnamedComponentStack |-> <<>>, newComponentStack |-> <<>>,
   masterComp |-> 0, masterNew |-> FALSE, oldProp |-> getFalse,
   remainingComps |-> compCnt, returned |-> FALSE,
   \* the clauses whose names the call has used so far (for the soundness statements)
   namingPremises |-> <<>>]

IsPropComp(lits, c) == Len(c) = 1 /\ arity(lits[c[1]]) = 0

\* lines 893-901, g the result of getPropPredName
PropComponent(w, lit, g) ==
  [w EXCEPT !.s = g.s,
            !.remainingComps = @ - 1,
            !.newMasterProp = disjunction(@, getAtomic(g.name, isPositive(lit))),
            !.masterPremises = Append(@, g.premise),
            !.namingPremises = Append(@, g.premise)]

\* lines 876-911: the propositional components
RECURSIVE PropComponents(_, _, _, _)
PropComponents(w, lits, comps, k) ==
  IF k > Len(comps) THEN w
  ELSE IF ~IsPropComp(lits, comps[k]) THEN PropComponents(w, lits, comps, k + 1)
  ELSE PropComponents(
         PropComponent(w, lits[comps[k][1]], getPropPredName(w.s, lits[comps[k][1]])),
         lits, comps, k + 1)

\* lines 946-956: the name of a named variant joins the split disjunction
UseName(w, comp, p) ==
  IF isTrue(p) THEN [w EXCEPT !.newMasterProp = p, !.returned = TRUE,
                              !.namingPremises = Append(@, comp)]
  ELSE [w EXCEPT !.newMasterProp = p, !.masterPremises = Append(@, comp),
                 !.namingPremises = Append(@, comp)]

\* lines 942-957: the component has a named variant
NamedVariant(w, comp) ==
  IF w.remainingComps = 0 /\ w.newComponentStack = <<>> /\ w.unnamedComponentStack = <<>>
  THEN [w EXCEPT !.masterComp = comp]
  ELSE UseName(w, comp, disjunction(w.newMasterProp, getAtomic(w.s.clauseNames[comp], TRUE)))

\* lines 962-976: a component without variant becomes a new clause
NewComponent(w, clits, inputType, id) ==
  [w EXCEPT
     !.s = [@ EXCEPT
              !.clauses = Append(@, [lits |-> Reverse(clits), prop |-> getTrue]),
              !.variantIndex = @ \cup {id},
              !.created = Append(@, Created(id, Reverse(clits), inputType,
                                            "TAUTOLOGY_INTRODUCTION", <<>>)),
              !.recs = Append(@, Rec("nonProp", US(id, Reverse(clits), getTrue),
                                     "TAUTOLOGY_INTRODUCTION", <<>>))],
     !.newComponentStack = Append(@, id)]

\* lines 933-977: one non-propositional component, remainingComps decreased
OtherComponent(w, clits, inputType) ==
  IF retrieveVariants(w.s, clits) # {}
  THEN IF FirstOf(retrieveVariants(w.s, clits)) \in DOMAIN w.s.clauseNames
       THEN NamedVariant(w, FirstOf(retrieveVariants(w.s, clits)))
       ELSE [w EXCEPT !.unnamedComponentStack =
                          Append(@, FirstOf(retrieveVariants(w.s, clits)))]
  ELSE NewComponent(w, clits, inputType, Len(w.s.clauses) + 1)

\* lines 914-978: the other components
RECURSIVE OtherComponents(_, _, _, _, _)
OtherComponents(w, lits, comps, k, inputType) ==
  IF k > Len(comps) \/ w.returned THEN w
  ELSE IF IsPropComp(lits, comps[k]) THEN OtherComponents(w, lits, comps, k + 1, inputType)
  ELSE OtherComponents(
         OtherComponent([w EXCEPT !.remainingComps = @ - 1],
                        CompLits(lits, comps[k]), inputType),
         lits, comps, k + 1, inputType)

\* lines 992-997: all components are propositional; r is the result of
\* inserting the empty clause with propositional part true
EmptyMaster(w, r) == [w EXCEPT !.s = r.s, !.masterComp = r.res, !.masterNew = r.newInserted]

\* lines 980-999: the choice of the master component
ChooseMaster(w) ==
  IF w.newComponentStack # <<>>
  THEN [w EXCEPT !.masterComp = w.newComponentStack[Len(w.newComponentStack)],
                 !.newComponentStack = SubSeq(@, 1, Len(@) - 1),
                 !.masterNew = TRUE]
  ELSE IF w.unnamedComponentStack # <<>>
  THEN [w EXCEPT !.masterComp = w.unnamedComponentStack[Len(w.unnamedComponentStack)],
                 !.unnamedComponentStack = SubSeq(@, 1, Len(@) - 1)]
  ELSE IF w.masterComp = 0
  THEN EmptyMaster(w,
         insertIntoIndex(
           [w.s EXCEPT !.created = Append(@,
               Created(-1, <<>>, "AXIOM", "TAUTOLOGY_INTRODUCTION", <<>>))],
           US(-1, <<>>, getTrue)))
  ELSE w

\* mutant of NameComponent: the master component is not skipped
NameComponentMasterToo(w, comp) ==
  IF comp \in DOMAIN w.s.clauseNames THEN [w EXCEPT !.s.nextVar = @ + 1]
  ELSE [w EXCEPT
          !.s = [@ EXCEPT
                   !.nextVar = @ + 1,
                   !.clauseNames = MapPut(@, comp, w.s.nextVar),
                   !.clauses[comp].prop = conjunction(@, getAtomic(w.s.nextVar, FALSE))],
          !.newMasterProp = disjunction(@, getAtomic(w.s.nextVar, TRUE)),
          !.masterPremises = Append(@, comp),
          !.namingPremises = Append(@, comp)]

\* mutant of NameComponent: the name is recorded but the component's
\* propositional part is left as it was
NameComponentKeepProp(w, comp) ==
  IF comp = w.masterComp THEN w
  ELSE IF comp \in DOMAIN w.s.clauseNames THEN [w EXCEPT !.s.nextVar = @ + 1]
  ELSE [w EXCEPT
          !.s = [@ EXCEPT !.nextVar = @ + 1,
                          !.clauseNames = MapPut(@, comp, w.s.nextVar)],
          !.newMasterProp = disjunction(@, getAtomic(w.s.nextVar, TRUE)),
          !.masterPremises = Append(@, comp),
          !.namingPremises = Append(@, comp)]

\* lines 1006-1030: one pass of the naming loop
NameComponent(w, comp) ==
  IF comp = w.masterComp THEN w
  ELSE IF comp \in DOMAIN w.s.clauseNames THEN [w EXCEPT !.s.nextVar = @ + 1]
  ELSE [w EXCEPT
          !.s = [@ EXCEPT
                   !.nextVar = @ + 1,
                   !.clauseNames = MapPut(@, comp, w.s.nextVar),
                   !.clauses[comp].prop = conjunction(@, getAtomic(w.s.nextVar, FALSE)),
                   !.recs =
                     IF conjunction(w.s.clauses[comp].prop, getAtomic(w.s.nextVar, FALSE))
                          # w.s.clauses[comp].prop
                     THEN Append(@, Rec("propAlter",
                            US(comp, w.s.clauses[comp].lits,
                               conjunction(w.s.clauses[comp].prop,
                                           getAtomic(w.s.nextVar, FALSE))),
                            "CLAUSE_NAMING", <<USOf(w.s, comp)>>))
                     ELSE @],
          !.newMasterProp = disjunction(@, getAtomic(w.s.nextVar, TRUE)),
          !.masterPremises = Append(@, comp),
          !.namingPremises = Append(@, comp)]

RECURSIVE NameComponents(_, _, _)
NameComponents(w, its, k) ==
  IF k > Len(its) THEN w ELSE NameComponents(NameComponent(w, its[k]), its, k + 1)

\* lines 1002-1031: the naming loop over the new, then the unnamed components
NameAll(w) ==
  NameComponents(w, Reverse(w.newComponentStack) \o Reverse(w.unnamedComponentStack), 1)

\* lines 1035-1038: the master's new propositional part and the SPLITTING record
UpdateMaster(w, cl) ==
  [w EXCEPT
     !.oldProp = w.s.clauses[w.masterComp].prop,
     !.s = [@ EXCEPT
              !.clauses[w.masterComp].prop = conjunction(@, w.newMasterProp),
              !.recs = Append(@, Rec("splitting",
                         US(w.masterComp, w.s.clauses[w.masterComp].lits,
                            conjunction(w.s.clauses[w.masterComp].prop, w.newMasterProp)),
                         "SPLITTING",
                         [i \in 1..Len(w.masterPremises) |->
                            IF w.masterPremises[i] = 0 THEN cl
                            ELSE IF w.masterPremises[i] = w.masterComp
                            THEN US(w.masterComp, w.s.clauses[w.masterComp].lits,
                                    conjunction(w.s.clauses[w.masterComp].prop,
                                                w.newMasterProp))
                            ELSE USOf(w.s, w.masterPremises[i])]
                           \o <<USOf(w.s, w.masterComp)>>))]]

\* the assertions at lines 1033 and 1040 that do not hold
FailedAsserts(w) ==
  (IF isTrue(w.newMasterProp) THEN {1033} ELSE {})
    \cup (IF isTrue(w.s.clauses[w.masterComp].prop) THEN {1040} ELSE {})

\* lines 1046-1062: the two iterators
EmitSplit(w, cl) ==
  IF ~w.masterNew
  THEN Outcome(w.s, Units(w.s, cl, Reverse(w.newComponentStack)),
               IF w.oldProp # w.s.clauses[w.masterComp].prop
               THEN <<USOf(w.s, w.masterComp)>> \o Units(w.s, cl, Reverse(w.unnamedComponentStack))
               ELSE Units(w.s, cl, Reverse(w.unnamedComponentStack)),
               w.masterComp, FALSE, Units(w.s, cl, w.namingPremises), FALSE, FailedAsserts(w))
  ELSE Outcome(w.s, <<USOf(w.s, w.masterComp)>> \o Units(w.s, cl, Reverse(w.newComponentStack)),
               Units(w.s, cl, Reverse(w.unnamedComponentStack)),
               w.masterComp, TRUE, Units(w.s, cl, w.namingPremises), FALSE, FailedAsserts(w))

\* lines 980-1062
SplitInto(w, cl) == EmitSplit(UpdateMaster(NameAll(ChooseMaster(w)), cl), cl)

\* lines 950-954 (return) or the rest of the call
AfterComponents(w, cl) ==
  IF w.returned
  THEN Outcome(w.s, <<>>, <<>>, 0, FALSE, Units(w.s, cl, w.namingPremises), TRUE, {})
  ELSE SplitInto(w, cl)

doSplitting(s, cl, inputType) ==
  IF Len(cl.lits) <= 1 \/ Len(Components[cl.lits]) = 1
  THEN handleNoSplit(s, cl, inputType)
  ELSE AfterComponents(
         OtherComponents(
           PropComponents(Locals(s, cl, Len(Components[cl.lits])),
                          cl.lits, Components[cl.lits], 1),
           cl.lits, Components[cl.lits], 1, inputType),
         cl)

\* the propositional parts a clause reaching the splitter can carry: false
\* (an input clause) or the part of a clause it was derived from
InputProps == ({getFalse} \cup {clauses[c].prop : c \in DOMAIN clauses}) \ {getTrue}

\* for each component of a clause, whether the index holds a variant of it
VariantBefore(lits) ==
  [k \in 1..Len(Components[lits]) |->
     retrieveVariants(Work, CompLits(lits, Components[lits][k])) # {}]

NoCall ==
  [op |-> "none", cl |-> US(0, <<>>, getFalse), inputType |-> "AXIOM", comps |-> <<>>,
   variantBefore |-> <<>>,
   newComponents |-> <<>>, modifiedComponents |-> <<>>, master |-> 0, masterNew |-> FALSE,
   masterUnit |-> US(0, <<>>, getTrue), namingPremises |-> <<>>, discarded |-> FALSE, asserts |-> {},
   created |-> <<>>, recs |-> <<>>]

\* the splitter after construction
SplitIdle ==
  /\ clauses = <<>>
  /\ variantIndex = {}
  /\ clauseNames = EmptyMap
  /\ propPredNames = [z \in {} |-> 0]
  /\ propPredPosNamePremises = [z \in {} |-> 0]
  /\ propPredNegNamePremises = [z \in {} |-> 0]
  /\ nextVar = 1
  /\ calls = 0
  /\ last = NoCall

Call(op, lits, prop, inputType) ==
  LET cl == US(0, lits, prop)
  IN \E o \in {doSplitting(Work, cl, inputType)} :
     /\ o.s.nextVar <= MaxVars + 1
     /\ clauses' = o.s.clauses
     /\ variantIndex' = o.s.variantIndex
     /\ clauseNames' = o.s.clauseNames
     /\ propPredNames' = o.s.propPredNames
     /\ propPredPosNamePremises' = o.s.propPredPosNamePremises
     /\ propPredNegNamePremises' = o.s.propPredNegNamePremises
     /\ nextVar' = o.s.nextVar
     /\ calls' = calls + 1
     /\ last' = [op |-> op, cl |-> cl, inputType |-> inputType, comps |-> Components[lits],
                 variantBefore |-> VariantBefore(lits),
                 newComponents |-> o.newComponents,
                 modifiedComponents |-> o.modifiedComponents,
                 master |-> o.master, masterNew |-> o.masterNew,
                 masterUnit |-> IF o.master = 0 THEN US(0, <<>>, getTrue)
                                ELSE USOf(o.s, o.master),
                 namingPremises |-> o.namingPremises, discarded |-> o.discarded,
                 asserts |-> o.asserts, created |-> o.s.created, recs |-> o.s.recs]

\* no component scan is under way
CompIdle ==
  /\ scanned = <<>>
  /\ varMasters = EmptyMap
  /\ components = <<>>
  /\ occ = 0
  /\ finished = FALSE

\* no goal search is under way
GoalIdle ==
  /\ goalLits = <<>>
  /\ lemmas = <<>>
  /\ answerVariables = <<>>
  /\ subst = EmptyMap
  /\ bdStack = <<>>
  /\ btData = <<>>
  /\ unifIts = <<>>
  /\ triedEqUnif = <<>>
  /\ depth = 0
  /\ pc = "idle"
  /\ result = "none"
  /\ answer = <<>>

\* the answer-literal manager after construction, no units given
\* no call of AnswerLiteralManager::tryGetAnswer yet
NoAnswerCall == [called |-> FALSE, given |-> <<>>, result |-> FALSE, answer |-> <<>>]

AnsIdle ==
  /\ units = <<>>
  /\ signature = EmptyMap
  /\ answers = <<>>
  /\ resolverClauses = EmptyMap
  /\ refutation = <<>>
  /\ unitsMade = <<>>
  /\ passes = 0
  /\ seen = <<>>
  /\ direct = NoAnswerCall

\* getNeededUnits not called
CollectIdle ==
  /\ store = <<>>
  /\ toDo = <<>>
  /\ seenUnits = {}
  /\ premiseClauses = <<>>
  /\ conjectures = <<>>
  /\ expanded = <<>>
  /\ cpc = "idle"

InterpIdle ==
  /\ proof = <<>>
  /\ inheritedColor = <<>>
  /\ stack = <<>>
  /\ timesColoured = <<>>
  /\ failedAssert = "none"
  /\ unitsToRepresentative = <<>>
  /\ queue = <<>>
  /\ processed = {}
  /\ bottomBoundaries = {}
  /\ topBoundaries = {}
  /\ ipc = "idle"
ShareIdle ==
  /\ satClauses = <<>>
  /\ storage = {}
  /\ res = 0
HelperIdle ==
  /\ helpers = <<>>
  /\ cores = <<>>
  /\ helperOp = <<>>
AfterInterpIdle == ShareIdle /\ HelperIdle
AfterCollectIdle == InterpIdle /\ AfterInterpIdle
LaterIdle == CollectIdle /\ AfterCollectIdle

otherThanSplit == <<compVars, goalVars, ansVars, laterVars>>
otherThanScan == <<splitVars, goalVars, ansVars, laterVars>>

SplitInit == SplitIdle /\ CompIdle /\ GoalIdle /\ AnsIdle /\ LaterIdle

\* a clause with at least two components is split
DoSplitting ==
  /\ calls < MaxCalls
  /\ \E in \in SplitInputs : \E prop \in InputProps :
       Call("doSplitting", in[1], prop, in[2])
  /\ UNCHANGED otherThanSplit

\* a clause with at most one literal or one component goes to handleNoSplit
HandleNoSplit ==
  /\ calls < MaxCalls
  /\ \E in \in NoSplitInputs : \E prop \in InputProps :
       Call("handleNoSplit", in[1], prop, in[2])
  /\ UNCHANGED otherThanSplit

SplitNext == DoSplitting \/ HandleNoSplit
vars == <<splitVars, compVars, goalVars, ansVars, laterVars>>
Spec == SplitInit /\ [][SplitNext]_vars

(* ------------------- truth of clauses in an interpretation ------------- *)
\* An interpretation gives a truth value to every arity-0 predicate and to
\* the universal closure of every non-propositional component (one atom per
\* variant class), and to every BDD variable.  A clause with propositional
\* part is true if its propositional part is or one of its components is.
PosLit(l) == [l EXCEPT !.pos = TRUE]
CompTrue(clits, A) ==
  IF Len(clits) = 1 /\ arity(clits[1]) = 0
  THEN (<<PosLit(clits[1])>> \in A) = clits[1].pos
  ELSE VariantClass[clits] \in A
LitsTrue(lits, A) ==
  \E k \in 1..Len(Components[lits]) : CompTrue(CompLits(lits, Components[lits][k]), A)
UnitTrue(u, A, N) == N \in u.prop \/ LitsTrue(u.lits, A)

AtomsOf(lits) ==
  {LET c == CompLits(lits, Components[lits][k])
   IN IF Len(c) = 1 /\ arity(c[1]) = 0 THEN <<PosLit(c[1])>> ELSE VariantClass[c]
     : k \in 1..Len(Components[lits])}
\* the atoms the splitter state and the last call speak about
StateAtoms ==
  AtomsOf(last.cl.lits) \cup UNION {AtomsOf(clauses[c].lits) : c \in DOMAIN clauses}

\* the naming clause of a named component: component or not name
NamingClause(c) == US(c, clauses[c].lits, getAtomic(clauseNames[c], FALSE))
\* the naming clauses used by the last call
UsedNamingClauses ==
  {IF last.namingPremises[i].id \in DOMAIN clauseNames
   THEN NamingClause(last.namingPremises[i].id)
   ELSE last.namingPremises[i] : i \in 1..Len(last.namingPremises)}

\* C1: after every splitter call on a clause C with propositional part P, C or P
\* is a logical consequence of the resulting master clause with its new
\* propositional part together with the naming clauses used by the call.
SplitterSoundness ==
  last.op # "none" =>
    \A A \in SUBSET StateAtoms : \A N \in Assignments :
      (UnitTrue(last.masterUnit, A, N) /\ \A u \in UsedNamingClauses : UnitTrue(u, A, N))
        => UnitTrue(last.cl, A, N)

\* C1 witness: a clause was split, components were named and a master was kept
SplitterSoundnessWitness ==
  /\ last.op = "doSplitting"
  /\ last.master # 0
  /\ Len(last.namingPremises) >= 2
  /\ ~isFalse(last.cl.prop)

\* the names mean what the splitter defined them to mean: the name of a
\* component is true iff the component is, the name of an arity-0 predicate
\* is true iff the predicate is
NamesAsDefined(A, N) ==
  /\ \A c \in DOMAIN clauseNames : (clauseNames[c] \in N) = LitsTrue(clauses[c].lits, A)
  /\ \A pr \in DOMAIN propPredNames :
       (propPredNames[pr] \in N) = (<<Lit(pr, TRUE, <<>>)>> \in A)

Entailed(rec) ==
  \A A \in SUBSET StateAtoms : \A N \in Assignments :
    (NamesAsDefined(A, N) /\ \A i \in 1..Len(rec.premises) : UnitTrue(rec.premises[i], A, N))
      => UnitTrue(rec.unit, A, N)

\* the changes of a propositional part the last call recorded
IsReplacement(rec) == rec.kind = "nonProp" /\ rec.rule = "SPLITTING"
PropChanges == {i \in 1..Len(last.recs) :
                  last.recs[i].kind \in {"splitting", "propAlter", "merge"}
                    \/ IsReplacement(last.recs[i])}

\* C2: every time the splitter changes a clause's propositional part, the
\* clause with its new propositional part is entailed by the premises
\* recorded for the change (the names read as the definitions they are).
PropPartInvariant == \A i \in PropChanges : Entailed(last.recs[i])

\* the same, leaving out the replacement of a propositional unit clause
PropPartInvariantButReplacement ==
  \A i \in PropChanges : ~IsReplacement(last.recs[i]) => Entailed(last.recs[i])
(* --------------------------- C9: splitting scenario --------------------- *)
\* the clause split by the last call has exactly two components, both
\* non-propositional, neither with a variant in the index
TwoFreshComponents ==
  /\ last.op = "doSplitting"
  /\ Len(last.comps) = 2
  /\ \A k \in 1..2 : /\ ~IsPropComp(last.cl.lits, last.comps[k])
                     /\ ~last.variantBefore[k]
ComponentClass(k) == VariantClass[CompLits(last.cl.lits, last.comps[k])]
\* the clause objects holding a variant of component k
ComponentClauses(k) ==
  {c \in variantIndex : VariantClass[clauses[c].lits] = ComponentClass(k)}

\* C9 as stated: two component clauses are produced and both have a split name
BothComponentsNamed ==
  TwoFreshComponents =>
    /\ Len(last.created) = 2
    /\ \A k \in 1..2 : \E c \in ComponentClauses(k) : c \in DOMAIN clauseNames

\* C9 amended: if the two components are moreover not variants of each
\* other, two component clauses are produced; the first component is named
\* (its propositional part becomes not-name), the second is the master, has
\* no name and gets the propositional part (P or name).
OneComponentNamed ==
  (TwoFreshComponents /\ ComponentClass(1) # ComponentClass(2)) =>
    /\ Len(last.created) = 2
    /\ \E c \in ComponentClauses(1) :
         /\ c \in DOMAIN clauseNames
         /\ clauses[c].prop = getAtomic(clauseNames[c], FALSE)
         /\ \E m \in ComponentClauses(2) :
              /\ m = last.master
              /\ m \notin DOMAIN clauseNames
              /\ clauses[m].prop = disjunction(last.cl.prop, getAtomic(clauseNames[c], TRUE))

OneComponentNamedWitness ==
  /\ TwoFreshComponents
  /\ ComponentClass(1) # ComponentClass(2)
  /\ Cardinality(DOMAIN clauseNames) = 1
  /\ ~isFalse(last.cl.prop)

(* --------------------------- C10: refutation ---------------------------- *)
\* the variant index holds a 0-literal clause with false propositional part
EmptyFalseIndexed ==
  \E c \in variantIndex : clauses[c].lits = <<>> /\ isFalse(clauses[c].prop)
Emitted == Range(last.newComponents) \cup Range(last.modifiedComponents)

\* C10: a call that makes the propositional part of the indexed 0-literal
\* clause false emits a clause with no literals and false propositional part.
RefutationSurfaced ==
  [][(~EmptyFalseIndexed /\ EmptyFalseIndexed')
       => \E e \in Emitted' : e.lits = <<>> /\ isFalse(e.prop)]_vars

\* C10 witness: the second of two complementary propositional units was
\* replaced, merged into the indexed 0-literal clause and made it false
RefutationSurfacedWitness ==
  /\ EmptyFalseIndexed
  /\ Len(last.cl.lits) = 1
  /\ \E i \in 1..Len(last.recs) :
       /\ last.recs[i].kind = "merge"
       /\ last.recs[i].unit.id = -1
       /\ isFalse(last.recs[i].unit.prop)
  /\ \E e \in Range(last.newComponents) : e.lits = <<>> /\ isFalse(e.prop)

(* --------------------------- C11: variant index ------------------------ *)
\* C11: the variant index never holds two distinct clauses that are equal up
\* to variable renaming, and the lookup of any renamed copy of an indexed
\* clause returns exactly that clause.
VariantIndexUnique ==
  /\ \A c, d \in variantIndex :
       c # d => ~isVariant(clauses[c].lits, clauses[d].lits)
  /\ \A c \in variantIndex : \A l \in ClauseUniverse :
       isVariant(l, clauses[c].lits) => retrieveVariants(Work, l) = {c}

\* a clause with two components that are variants of each other was split,
\* the index holds their one clause, and a renamed copy of it is looked up
VariantIndexUniqueWitness ==
  /\ last.op = "doSplitting"
  /\ \E j, k \in 1..Len(last.comps) :
       /\ j # k
       /\ isVariant(CompLits(last.cl.lits, last.comps[j]), CompLits(last.cl.lits, last.comps[k]))
       /\ \E c \in variantIndex :
            /\ isVariant(clauses[c].lits, CompLits(last.cl.lits, last.comps[j]))
            /\ clauses[c].lits # CompLits(last.cl.lits, last.comps[k])

(* --------------------------- C12: discard on true ---------------------- *)
\* C12: a doSplitting call whose accumulated split disjunction is true
\* discards the clause and emits nothing; so the assertions at lines 1033
\* (the disjunction is not true) and 1040 (the master's part is not true)
\* hold whenever they are reached, and no master gets the part true.
DiscardOnTrue ==
  last.op = "doSplitting" =>
    /\ last.discarded => last.newComponents = <<>> /\ last.modifiedComponents = <<>>
    /\ last.asserts = {}
    /\ last.master # 0 => ~isTrue(last.masterUnit.prop)

(* --------------------------- C13: one master --------------------------- *)
\* a doSplitting call that splits its clause into at least two components
\* and does not discard it
SplitStep ==
  /\ calls' = calls + 1
  /\ last'.op = "doSplitting"
  /\ Len(last'.comps) >= 2
  /\ ~last'.discarded
\* the indexed clause that holds component k of the clause split last
ComponentClause(k) == CHOOSE c \in variantIndex : c \in ComponentClauses(k)
\* the name standing for component k in the split disjunction: the name of
\* its arity-0 predicate with the literal's sign, or the name of its clause
\* (nothing for the master)
ComponentName(k) ==
  IF IsPropComp(last.cl.lits, last.comps[k])
  THEN getAtomic(propPredNames[last.cl.lits[last.comps[k][1]].pred],
                 isPositive(last.cl.lits[last.comps[k][1]]))
  ELSE IF ComponentClause(k) = last.master THEN getFalse
  ELSE getAtomic(clauseNames[ComponentClause(k)], TRUE)
\* the split disjunction of the last call: the part of the clause split or
\* the name of one of its components
SplitDisjunction ==
  UNION ({last.cl.prop} \cup {ComponentName(k) : k \in 1..Len(last.comps)})
SplittingRecs == {i \in 1..Len(last.recs) : last.recs[i].kind = "splitting"}

\* C13: a doSplitting call that splits a clause into at least two components
\* and does not discard it designates one master clause; the master's part
\* becomes (its old part and the split disjunction); every other clause
\* keeps its part or, if named by the call, gets (its part and not its
\* name); the call records exactly one SPLITTING event, for the master and
\* with the clause split among the premises; the master gets no new name.
ExactlyOneMaster ==
  [][SplitStep =>
       /\ last'.master \in DOMAIN clauses'
       /\ clauses'[last'.master].prop =
            conjunction(IF last'.master \in DOMAIN clauses
                        THEN clauses[last'.master].prop ELSE getTrue,
                        SplitDisjunction')
       /\ \A c \in DOMAIN clauses \ {last'.master} :
            \/ clauses'[c].prop = clauses[c].prop
            \/ /\ c \in DOMAIN clauseNames' \ DOMAIN clauseNames
               /\ clauses'[c].prop =
                    conjunction(clauses[c].prop, getAtomic(clauseNames'[c], FALSE))
       /\ Cardinality(SplittingRecs') = 1
       /\ \A i \in SplittingRecs' :
            /\ last'.recs[i].unit = last'.masterUnit
            /\ last'.cl \in Range(last'.recs[i].premises)
       /\ last'.master \notin DOMAIN clauseNames' \ DOMAIN clauseNames]_vars

\* C13 witness: the clause split had a component with an unnamed variant in
\* the index that was kept as master, and another component was named
ExactlyOneMasterWitness ==
  /\ last.op = "doSplitting"
  /\ Len(last.comps) >= 2
  /\ ~last.discarded
  /\ last.master # 0
  /\ ~last.masterNew
  /\ SplittingRecs # {}
  /\ \E k \in 1..Len(last.comps) :
       /\ ~IsPropComp(last.cl.lits, last.comps[k])
       /\ ComponentClause(k) # last.master
       /\ ComponentClause(k) \in DOMAIN clauseNames

(* --------------------------- C14: propositional names ------------------ *)
\* the clause objects that are naming premises of arity-0 literals
NamingPremises == {c \in DOMAIN clauses : c \notin variantIndex}
\* the arity-0 literals the last call asked a name for
NamedLiterals ==
  {last.cl.lits[last.comps[k][1]] :
     k \in {j \in 1..Len(last.comps) : IsPropComp(last.cl.lits, last.comps[j])}}
PremiseMap(lit) ==
  IF isPositive(lit) THEN propPredPosNamePremises ELSE propPredNegNamePremises
\* the premise kept for lit is the unit clause {lit} with the part
\* atomic(n, lit negative), n the name of lit's predicate
PremiseAsDefined(lit) ==
  /\ lit.pred \in DOMAIN propPredNames
  /\ PremiseMap(lit)[lit.pred] \in NamingPremises
  /\ clauses[PremiseMap(lit)[lit.pred]] =
       [lits |-> <<lit>>, prop |-> getAtomic(propPredNames[lit.pred], ~isPositive(lit))]

\* C14: over any sequence of splitter calls an arity-0 predicate keeps the
\* BDD variable it was given, one variable for both signs; there is at most
\* one naming premise per predicate and sign, it is the unit clause {lit}
\* with part atomic(n, not isPositive(lit)), it is kept as it is, and every
\* call that names lit uses this premise.
PropNamesStable ==
  /\ [](/\ \A pr \in DOMAIN propPredPosNamePremises : PremiseAsDefined(Lit(pr, TRUE, <<>>))
        /\ \A pr \in DOMAIN propPredNegNamePremises : PremiseAsDefined(Lit(pr, FALSE, <<>>))
        /\ \A c, d \in NamingPremises : clauses[c].lits = clauses[d].lits => c = d
        /\ \A lit \in NamedLiterals :
             /\ lit.pred \in DOMAIN PremiseMap(lit)
             /\ \E i \in 1..Len(last.namingPremises) :
                  last.namingPremises[i].id = PremiseMap(lit)[lit.pred])
  /\ [][/\ \A pr \in DOMAIN propPredNames :
            pr \in DOMAIN propPredNames' /\ propPredNames'[pr] = propPredNames[pr]
        /\ \A pr \in DOMAIN propPredPosNamePremises :
            /\ pr \in DOMAIN propPredPosNamePremises'
            /\ propPredPosNamePremises'[pr] = propPredPosNamePremises[pr]
        /\ \A pr \in DOMAIN propPredNegNamePremises :
            /\ pr \in DOMAIN propPredNegNamePremises'
            /\ propPredNegNamePremises'[pr] = propPredNegNamePremises[pr]
        /\ \A c \in NamingPremises : clauses'[c] = clauses[c]]_vars

\* C14 witness: the last call named a literal whose premise an earlier call
\* had built, and the predicate has a premise for either sign
PropNamesStableWitness ==
  /\ calls = 2
  /\ \E lit \in NamedLiterals :
       /\ lit.pred \in DOMAIN propPredPosNamePremises
       /\ lit.pred \in DOMAIN propPredNegNamePremises
       /\ \A i \in 1..Len(last.created) : last.created[i].rule # "CLAUSE_NAMING"

(* --------------------------- C17: replacement -------------------------- *)
\* C17: the 0-literal clause that replaces a clause {lit}, lit of arity 0,
\* with propositional part old is derived by SPLITTING from the clause and
\* the naming premise and carries the part (old or atomic(n, lit positive)),
\* n the name of lit's predicate, when it is handed to the variant index.
ReplacementKeepsProp ==
  \A i \in 1..Len(last.recs) :
    IsReplacement(last.recs[i]) =>
      /\ last.recs[i].unit.lits = <<>>
      /\ last.recs[i].premises[1] = last.cl
      /\ last.recs[i].unit.prop =
           disjunction(last.cl.prop,
                       getAtomic(propPredNames[last.cl.lits[1].pred],
                                 isPositive(last.cl.lits[1])))

(* --------------------------- C18: one component ------------------------ *)
\* a handleNoSplit call on a clause that is not a propositional unit clause
SingleStep ==
  /\ calls' = calls + 1
  /\ last'.op = "handleNoSplit"
  /\ ~(Len(last'.cl.lits) = 1 /\ arity(last'.cl.lits[1]) = 0)
\* the indexed variants of the clause before the call
IndexedVariants == {c \in variantIndex : isVariant(clauses[c].lits, last'.cl.lits)}
SplitterUnchanged ==
  UNCHANGED <<clauses, variantIndex, clauseNames, propPredNames,
              propPredPosNamePremises, propPredNegNamePremises, nextVar>>
MergeRecs == {i \in 1..Len(last.recs) : last.recs[i].kind = "merge"}

\* no variant was indexed: the clause is inserted and is the one new component
InsertedNew ==
  /\ IndexedVariants = {}
  /\ clauses' = Append(clauses, [lits |-> last'.cl.lits, prop |-> last'.cl.prop])
  /\ variantIndex' = variantIndex \cup {Len(clauses')}
  /\ last'.newComponents = <<US(Len(clauses'), last'.cl.lits, last'.cl.prop)>>
  /\ last'.modifiedComponents = <<>>
  /\ last'.recs = <<>>
\* the variant's part implies the clause's: nothing is emitted or changed
FoundVariantNoChange ==
  /\ \E c \in IndexedVariants :
       conjunction(clauses[c].prop, last'.cl.prop) = clauses[c].prop
  /\ SplitterUnchanged
  /\ last'.newComponents = <<>>
  /\ last'.modifiedComponents = <<>>
  /\ last'.recs = <<>>
\* the variant's part becomes (its part and the clause's), a merge is
\* recorded, and the variant is the one modified component; if it is the
\* 0-literal clause and its part became false, the clause with part false
\* is handed back as new component instead
FoundVariantMergedProp ==
  \E c \in IndexedVariants :
    /\ conjunction(clauses[c].prop, last'.cl.prop) # clauses[c].prop
    /\ clauses' = [clauses EXCEPT ![c].prop = conjunction(@, last'.cl.prop)]
    /\ UNCHANGED <<variantIndex, clauseNames, propPredNames,
                   propPredPosNamePremises, propPredNegNamePremises, nextVar>>
    /\ \E i \in MergeRecs' : last'.recs[i].unit = US(c, clauses'[c].lits, clauses'[c].prop)
    /\ IF clauses'[c].lits = <<>> /\ isFalse(clauses'[c].prop)
       THEN /\ last'.newComponents = <<US(0, <<>>, getFalse)>>
            /\ last'.modifiedComponents = <<>>
       ELSE /\ last'.newComponents = <<>>
            /\ last'.modifiedComponents = <<US(c, clauses'[c].lits, clauses'[c].prop)>>
                 /\ Cardinality(MergeRecs') = 1

\* C18: a handleNoSplit call on a clause of one non-propositional component,
\* or of no literal, ends in exactly one of the outcomes inserted-new,
\* found-variant-no-change and found-variant-merged-prop; and for no clause
\* does insertIntoIndex report both newInserted and modified.
SingleComponentOutcomes ==
  /\ [][SingleStep =>
          /\ InsertedNew \/ FoundVariantNoChange \/ FoundVariantMergedProp
          /\ ~(InsertedNew /\ FoundVariantNoChange)
          /\ ~(InsertedNew /\ FoundVariantMergedProp)
          /\ ~(FoundVariantNoChange /\ FoundVariantMergedProp)]_vars
  /\ [](\A l \in InputClauses : \A pr \in InputProps \cup {getTrue} :
          ~(insertIntoIndex(Work, US(0, l, pr)).newInserted
              /\ insertIntoIndex(Work, US(0, l, pr)).modified))

\* C18 witness: the indexed variant of a clause with literals got the part
\* (its part and the clause's) and is the one modified component
SingleComponentOutcomesWitness ==
  /\ last.op = "handleNoSplit"
  /\ last.cl.lits # <<>>
  /\ arity(last.cl.lits[1]) > 0
  /\ MergeRecs # {}
  /\ Len(last.modifiedComponents) = 1
  /\ last.newComponents = <<>>

(* --------------------------- C19: modified components ------------------ *)
\* C19: every clause a splitter call emits in modifiedComponents existed
\* before the call, and the call tightened its propositional part: the new
\* part differs from the old one and implies it.
ModifiedReallyChanged ==
  [][calls' = calls + 1 =>
       \A e \in Range(last'.modifiedComponents) :
          /\ e.id \in DOMAIN clauses
          /\ clauses'[e.id].prop # clauses[e.id].prop
          /\ clauses'[e.id].prop \subseteq clauses[e.id].prop]_vars

(* --------------------------- C27: no duplicate emission ---------------- *)
\* what the last call handed back: the new, then the modified components
EmittedSeq == last.newComponents \o last.modifiedComponents

\* C27: in one doSplitting or handleNoSplit call no clause occurs more than
\* once among the new and the modified components handed back.
NoDuplicateEmission ==
  \A i, j \in 1..Len(EmittedSeq) : EmittedSeq[i].id = EmittedSeq[j].id => i = j

(* --------------------------- C28: names are injective ------------------ *)
\* C28: no BDD variable is the name of two component clauses, of two arity-0
\* predicates, or of a component clause and an arity-0 predicate; and a
\* clause or predicate that has a name keeps it in every later call.
SplitNamesInjective ==
  /\ [](/\ \A c, d \in DOMAIN clauseNames : clauseNames[c] = clauseNames[d] => c = d
        /\ \A pr, qr \in DOMAIN propPredNames :
             propPredNames[pr] = propPredNames[qr] => pr = qr
        /\ \A c \in DOMAIN clauseNames : \A pr \in DOMAIN propPredNames :
             clauseNames[c] # propPredNames[pr])
  /\ [][/\ \A c \in DOMAIN clauseNames :
            c \in DOMAIN clauseNames' /\ clauseNames'[c] = clauseNames[c]
        /\ \A pr \in DOMAIN propPredNames :
            pr \in DOMAIN propPredNames' /\ propPredNames'[pr] = propPredNames[pr]]_vars

\* C28 witness: two calls gave names to two arity-0 predicates and to a
\* component clause
SplitNamesInjectiveWitness ==
  /\ calls = 2
  /\ Cardinality(DOMAIN propPredNames) = 2
  /\ Cardinality(DOMAIN clauseNames) = 1
  /\ last.op = "doSplitting"

(* ======================================================================= *)
(* The component scan of doSplitting (lines 827-846), one variable         *)
(* occurrence at a time, over every clause of a bounded set.               *)
(* ======================================================================= *)
\* the literals the scanned clauses are made of
ScanLiterals ==
  { P0, Q(0), Q(1), Q(3), S(2), T(1, 2), T(2, 3), T(1, 1) }

RECURSIVE SeqsUpTo(_, _)
SeqsUpTo(X, n) ==
  IF n = 0 THEN {<<>>}
  ELSE SeqsUpTo(X, n - 1)
         \cup {Append(q, x) : q \in {r \in SeqsUpTo(X, n - 1) : Len(r) = n - 1}, x \in X}

\* doSplitting scans a clause only if clen > 1 (lines 822-825)
ScanClauses == {c \in SeqsUpTo(ScanLiterals, MaxLits) : Len(c) > 1}

ScanInit ==
  /\ scanned \in ScanClauses
  /\ varMasters = EmptyMap
  /\ components = UFInit(Len(scanned))
  /\ occ = 0
  /\ finished = FALSE
  /\ SplitIdle
  /\ GoalIdle
  /\ AnsIdle
  /\ LaterIdle

\* lines 836-840: one pass of the inner loop
ScanVariable ==
  /\ ~finished
  /\ occ < Len(VarOccs(scanned))
  /\ \E st \in {VarStep([varMasters |-> varMasters, uf |-> components],
                         scanned[VarOccs(scanned)[occ + 1][1]].args[VarOccs(scanned)[occ + 1][2]],
                         VarOccs(scanned)[occ + 1][1])} :
       /\ varMasters' = st.varMasters
       /\ components' = st.uf
  /\ occ' = occ + 1
  /\ UNCHANGED <<scanned, finished>>
  /\ UNCHANGED otherThanScan

\* line 844: components.finish()
Finish ==
  /\ ~finished
  /\ occ = Len(VarOccs(scanned))
  /\ finished' = TRUE
  /\ UNCHANGED <<scanned, varMasters, components, occ>>
  /\ UNCHANGED otherThanScan

ScanNext == ScanVariable \/ Finish
SpecComp == ScanInit /\ [][ScanNext]_vars

(* ------------------------------- C8 ------------------------------------ *)
LitVars(l) == {l.args[k] : k \in 1..Len(l.args)} \ {0}
ShareVariable(lits) ==
  {<<i, j>> \in (1..Len(lits)) \X (1..Len(lits)) : LitVars(lits[i]) \cap LitVars(lits[j]) # {}}

\* the pairs linked by a chain of literals whose neighbours share a variable
RECURSIVE Chains(_)
Chains(R) ==
  LET R2 == R \cup {<<e[1][1], e[2][2]>> : e \in {g \in R \X R : g[1][2] = g[2][1]}}
  IN IF R2 = R THEN R ELSE Chains(R2)
Linked(lits) == Chains(ShareVariable(lits) \cup {<<i, i>> : i \in 1..Len(lits)})

SameComponent(i, j) ==
  \E k \in 1..Len(UFComponents(components)) :
     i \in Range(UFComponents(components)[k]) /\ j \in Range(UFComponents(components)[k])

\* C8: once the scan has finished, two literals are in the same component
\* exactly if a chain of literals sharing variables links them, a literal
\* without variables is a component of its own, and every literal is in
\* exactly one component.
ComponentDecomposition ==
  finished =>
    /\ \A i, j \in 1..Len(scanned) : SameComponent(i, j) <=> <<i, j>> \in Linked(scanned)
    /\ \A i \in 1..Len(scanned) :
         LitVars(scanned[i]) = {} =>
           \E k \in 1..Len(UFComponents(components)) : UFComponents(components)[k] = <<i>>
    /\ \A i \in 1..Len(scanned) :
         Cardinality({k \in 1..Len(UFComponents(components)) :
                        i \in Range(UFComponents(components)[k])}) = 1

\* a finished scan in which two literals without a common variable are in one
\* component, next to a component made of one literal without variables
ComponentDecompositionWitness ==
  /\ finished
  /\ \E i, j \in 1..Len(scanned) :
       /\ SameComponent(i, j)
       /\ LitVars(scanned[i]) \cap LitVars(scanned[j]) = {}
  /\ \E i \in 1..Len(scanned) : LitVars(scanned[i]) = {}

(* ======================================================================= *)
(* ConjunctionGoalAnswerExractor: SubstBuilder::run and the answer of      *)
(* tryGetAnswer, src/Shell/AnswerExtractor.cpp:93-260.                     *)
(* ======================================================================= *)
\* terms of goal and lemma literals: a variable or a constant; in the
\* substitution a term carries the bank it is read in (constants: bank 0)
V(x) == <<"v", x>>
K(c) == <<"c", c>>
InBank(t, bank) == <<t[1], t[2], IF t[1] = "v" THEN bank ELSE 0>>
isVar(t) == t[1] = "v"
isEquality(l) == l.pred = "="
header(l) == <<l.pred, l.pos>>

(* --------------------------- RobSubstitution --------------------------- *)
RECURSIVE deref(_, _)
deref(s, t) == IF t \in DOMAIN s THEN deref(s, s[t]) ELSE t

\* a unification under way: whether it still succeeds, the substitution, and
\* the variables bound so far
Unifying(s) == [ok |-> TRUE, subst |-> s, bound |-> <<>>]
bind(r, v, t) == [r EXCEPT !.subst = MapPut(@, v, t), !.bound = Append(@, v)]
UnifyDerefed(r, d1, d2) ==
  IF d1 = d2 THEN r
  ELSE IF isVar(d1) THEN bind(r, d1, d2)
  ELSE IF isVar(d2) THEN bind(r, d2, d1)
  ELSE [r EXCEPT !.ok = FALSE]
UnifyTerms(r, t1, t2) ==
  IF r.ok THEN UnifyDerefed(r, deref(r.subst, t1), deref(r.subst, t2)) ELSE r
RECURSIVE UnifyFrom(_, _, _, _, _, _)
UnifyFrom(r, l1, b1, l2, b2, k) ==
  IF k > Len(l1.args) THEN r
  ELSE UnifyFrom(UnifyTerms(r, InBank(l1.args[k], b1), InBank(l2.args[k], b2)),
                 l1, b1, l2, b2, k + 1)
\* on failure the substitution is left unchanged
Settle(s, r) == IF r.ok THEN r ELSE [ok |-> FALSE, subst |-> s, bound |-> <<>>]
unifyArgs(s, l1, b1, l2, b2) == Settle(s, UnifyFrom(Unifying(s), l1, b1, l2, b2, 1))
unify(s, t1, b1, t2, b2) == Settle(s, UnifyTerms(Unifying(s), InBank(t1, b1), InBank(t2, b2)))
apply(s, t, bank) == deref(s, InBank(t, bank))
\* BacktrackData::backtrack: the recorded bindings are undone
backtrack(s, bound) == [z \in DOMAIN s \ Range(bound) |-> s[z]]

(* ------------------------------ the index ------------------------------ *)
\* LiteralIndexingStructure::getUnifications(lit, false, false): the indexed
\* literals with the header of lit that unify with it, in the index's order
getUnifications(index, lit) ==
  SelectSeq(index, LAMBDA l : header(l) = header(lit)
                              /\ unifyArgs(EmptyMap, lit, 0, l, 1).ok)

(* ---------------------------- nextGoalUnif ----------------------------- *)
\* mutant of TryLemma: the result of unifyArgs is not looked at
TryLemmaUnchecked(s, goalLit, lemma) == [ok |-> TRUE, subst |-> s, bound |-> <<>>]

\* line 163
TryLemma(s, goalLit, lemma) == unifyArgs(s, goalLit, 0, lemma, 1)

\* what nextGoalUnif hands back: its result, the substitution, the variables
\* it bound, what is left of the iterator, and _triedEqUnif
Unif(r, it, tried) ==
  [ok |-> r.ok, subst |-> r.subst, bound |-> r.bound, it |-> it, tried |-> tried]

\* lines 159-166
RECURSIVE TryLemmas(_, _, _, _)
TryLemmas(s, goalLit, it, tried) ==
  IF it = <<>> THEN Unif([ok |-> FALSE, subst |-> s, bound |-> <<>>], <<>>, tried)
  ELSE IF TryLemma(s, goalLit, Head(it)).ok
  THEN Unif(TryLemma(s, goalLit, Head(it)), Tail(it), tried)
  ELSE TryLemmas(s, goalLit, Tail(it), tried)

\* mutant of TryEquality: _triedEqUnif is not looked at
TryEqualityAgain(r, goalLit) ==
  IF r.ok THEN r
  ELSE IF isEquality(goalLit) /\ isPositive(goalLit)
  THEN Unif(unify(r.subst, goalLit.args[1], 0, goalLit.args[2], 0), r.it, TRUE)
  ELSE r

\* lines 167-173
TryEquality(r, goalLit) ==
  IF r.ok THEN r
  ELSE IF ~r.tried /\ isEquality(goalLit) /\ isPositive(goalLit)
  THEN Unif(unify(r.subst, goalLit.args[1], 0, goalLit.args[2], 0), r.it, TRUE)
  ELSE r

nextGoalUnif(s, goalLit, it, tried) == TryEquality(TryLemmas(s, goalLit, it, tried), goalLit)

\* nextGoalUnif at the current depth
NextHere ==
  nextGoalUnif(subst, goalLits[depth + 1], unifIts[depth + 1], triedEqUnif[depth + 1])

(* ------------------------- goals and lemmas ---------------------------- *)
X1 == V(1)
X2 == V(2)
\* the goal literals p(X1), q(X1), q(X2), X1 = b, X1 # b
GoalLiterals ==
  { Lit("p", TRUE, <<X1>>), Lit("q", TRUE, <<X1>>), Lit("q", TRUE, <<X2>>),
    Lit("=", TRUE, <<X1, K("b")>>), Lit("=", FALSE, <<X1, K("b")>>) }
\* the lemmas p(a), p(b), q(b), q(X1), a = b
LemmaLiterals ==
  { Lit("p", TRUE, <<K("a")>>), Lit("p", TRUE, <<K("b")>>), Lit("q", TRUE, <<K("b")>>),
    Lit("q", TRUE, <<X1>>), Lit("=", TRUE, <<K("a"), K("b")>>) }

\* tryGetAnswer builds at least one goal literal (lines 214-229)
GoalLists == {g \in SeqsUpTo(GoalLiterals, MaxGoals) : Len(g) >= 1}
\* an index holds a literal once; every order of its iterators
LemmaOrders ==
  {l \in SeqsUpTo(LemmaLiterals, MaxLemmas) : \A i, j \in 1..Len(l) : l[i] = l[j] => i = j}
AnswerVarLists == {<<1>>, <<2, 1>>}

\* lines 93-98 and 231-241: the search is set up
GoalInit ==
  /\ goalLits \in GoalLists
  /\ lemmas \in LemmaOrders
  /\ answerVariables \in AnswerVarLists
  /\ subst = EmptyMap
  /\ bdStack = <<>>
  /\ btData = [i \in 1..Len(goalLits) |-> <<>>]
  /\ unifIts = [i \in 1..Len(goalLits) |-> <<>>]
  /\ triedEqUnif = [i \in 1..Len(goalLits) |-> FALSE]
  /\ depth = 0
  /\ pc = "start"
  /\ result = "none"
  /\ answer = <<>>
  /\ SplitIdle
  /\ CompIdle
  /\ AnsIdle
  /\ LaterIdle

otherThanGoal == <<splitVars, compVars, ansVars, laterVars>>

\* lines 112-113: _depth = 0; enterGoal()
Run ==
  /\ pc = "start"
  /\ pc' = "loop"
  /\ depth' = 0
  /\ unifIts' = [unifIts EXCEPT ![1] = getUnifications(lemmas, goalLits[1])]
  /\ triedEqUnif' = [triedEqUnif EXCEPT ![1] = FALSE]
  /\ bdStack' = Append(bdStack, 1)
  /\ UNCHANGED <<goalLits, lemmas, answerVariables, subst, btData, result, answer>>
  /\ UNCHANGED otherThanGoal

\* mutant of Recorded: the bindings are not recorded
RecordedNowhere(r) == btData

\* the bindings of a successful unification go to the innermost recording
Recorded(r) == [btData EXCEPT ![bdStack[Len(bdStack)]] = @ \o r.bound]

\* lines 115-120: nextGoalUnif succeeded and a goal is left: enterGoal()
Advance ==
  /\ pc = "loop"
  /\ depth + 1 < Len(goalLits)
  /\ \E r \in {NextHere} :
       /\ r.ok
       /\ subst' = r.subst
       /\ btData' = Recorded(r)
       /\ unifIts' = [unifIts EXCEPT ![depth + 1] = r.it,
                                     ![depth + 2] = getUnifications(lemmas, goalLits[depth + 2])]
       /\ triedEqUnif' = [triedEqUnif EXCEPT ![depth + 1] = r.tried, ![depth + 2] = FALSE]
  /\ depth' = depth + 1
  /\ bdStack' = Append(bdStack, depth + 2)
  /\ UNCHANGED <<goalLits, lemmas, answerVariables, pc, result, answer>>
  /\ UNCHANGED otherThanGoal

\* lines 115-118 and 130-135: nextGoalUnif succeeded for the last goal
Succeed ==
  /\ pc = "loop"
  /\ depth + 1 = Len(goalLits)
  /\ \E r \in {NextHere} :
       /\ r.ok
       /\ subst' = r.subst
       /\ btData' = Recorded(r)
       /\ unifIts' = [unifIts EXCEPT ![depth + 1] = r.it]
       /\ triedEqUnif' = [triedEqUnif EXCEPT ![depth + 1] = r.tried]
  /\ depth' = depth + 1
  /\ bdStack' = SubSeq(bdStack, 1, Len(bdStack) - (depth + 1))
  /\ pc' = "returned"
  /\ result' = "true"
  /\ UNCHANGED <<goalLits, lemmas, answerVariables, answer>>
  /\ UNCHANGED otherThanGoal

\* lines 122-127 and 146-152: nextGoalUnif failed below depth 0: leaveGoal()
Retreat ==
  /\ pc = "loop"
  /\ depth > 0
  /\ \E r \in {NextHere} :
       /\ ~r.ok
       /\ unifIts' = [unifIts EXCEPT ![depth + 1] = r.it]
       /\ triedEqUnif' = [triedEqUnif EXCEPT ![depth + 1] = r.tried]
  /\ bdStack' = SubSeq(bdStack, 1, Len(bdStack) - 1)
  /\ subst' = backtrack(subst, btData[depth + 1])
  /\ btData' = [btData EXCEPT ![depth + 1] = <<>>]
  /\ depth' = depth - 1
  /\ UNCHANGED <<goalLits, lemmas, answerVariables, pc, result, answer>>
  /\ UNCHANGED otherThanGoal

\* lines 122-125: nextGoalUnif failed at depth 0: run returns false
Fail ==
  /\ pc = "loop"
  /\ depth = 0
  /\ \E r \in {NextHere} :
       /\ ~r.ok
       /\ unifIts' = [unifIts EXCEPT ![depth + 1] = r.it]
       /\ triedEqUnif' = [triedEqUnif EXCEPT ![depth + 1] = r.tried]
  /\ bdStack' = SubSeq(bdStack, 1, Len(bdStack) - 1)
  /\ subst' = backtrack(subst, btData[depth + 1])
  /\ btData' = [btData EXCEPT ![depth + 1] = <<>>]
  /\ pc' = "returned"
  /\ result' = "false"
  /\ UNCHANGED <<goalLits, lemmas, answerVariables, depth, answer>>
  /\ UNCHANGED otherThanGoal

\* lines 251-259: the answer is read off the substitution
Answer ==
  /\ pc = "returned"
  /\ result = "true"
  /\ pc' = "answered"
  /\ answer' = [i \in 1..Len(answerVariables) |-> apply(subst, V(answerVariables[i]), 0)]
  /\ UNCHANGED <<goalLits, lemmas, answerVariables, subst, bdStack, btData, unifIts,
                 triedEqUnif, depth, result>>
  /\ UNCHANGED otherThanGoal

GoalNext == Run \/ Advance \/ Succeed \/ Retreat \/ Fail \/ Answer
SpecGoal == GoalInit /\ [][GoalNext]_vars

(* ------------------------------- C3 ------------------------------------ *)
\* a choice gives every goal literal a lemma (its position in the index) or,
\* with 0, the unification of its own two sides
Choices == [1..Len(goalLits) -> 0..Len(lemmas)]
Admissible(ch) ==
  \A g \in 1..Len(goalLits) :
     IF ch[g] = 0 THEN isEquality(goalLits[g]) /\ isPositive(goalLits[g])
     ELSE header(lemmas[ch[g]]) = header(goalLits[g])
ChosenUnif(r, g, c) ==
  IF c = 0
  THEN UnifyTerms(r, InBank(goalLits[g].args[1], 0), InBank(goalLits[g].args[2], 0))
  ELSE UnifyFrom(r, goalLits[g], 0, lemmas[c], 1, 1)
RECURSIVE Together(_, _, _)
Together(r, ch, g) ==
  IF g > Len(goalLits) THEN r ELSE Together(ChosenUnif(r, g, ch[g]), ch, g + 1)
Solvable == \E ch \in Choices : Admissible(ch) /\ Together(Unifying(EmptyMap), ch, 1).ok

\* C3: run returns true whenever some choice of one lemma (or own-sides
\* unification) per goal literal succeeds together; that is, it never
\* returns false for a solvable list of goals.
GoalSearchComplete == result = "false" => ~Solvable

(* ------------------------------- C4 ------------------------------------ *)
SameUnder(s, l1, b1, l2, b2) ==
  \A k \in 1..Len(l1.args) : apply(s, l1.args[k], b1) = apply(s, l2.args[k], b2)

\* C4: when run has returned true, the final substitution makes every goal
\* literal equal to some lemma with its header, or is a positive equality
\* whose sides it makes equal; and the answer is the image of the answer
\* variables under it.
GoalSearchSound ==
  /\ result = "true" =>
       \A g \in 1..Len(goalLits) :
          \/ \E c \in 1..Len(lemmas) :
                /\ header(lemmas[c]) = header(goalLits[g])
                /\ SameUnder(subst, goalLits[g], 0, lemmas[c], 1)
          \/ /\ isEquality(goalLits[g]) /\ isPositive(goalLits[g])
             /\ apply(subst, goalLits[g].args[1], 0) = apply(subst, goalLits[g].args[2], 0)
  /\ pc = "answered" =>
       /\ Len(answer) = Len(answerVariables)
       /\ \A i \in 1..Len(answer) : answer[i] = deref(subst, <<"v", answerVariables[i], 0>>)

\* an answered search over two goals that went back to an earlier goal, with
\* a constant in the answer
GoalSearchSoundWitness ==
  /\ pc = "answered"
  /\ Len(goalLits) = 2
  /\ \E i \in 1..Len(answer) : ~isVar(answer[i])
  /\ \E g \in 1..Len(goalLits) : Len(unifIts[g]) < Len(getUnifications(lemmas, goalLits[g])) - 1

(* ======================================================================= *)
(* AnswerLiteralManager: addAnswerLiterals and onNewClause,                *)
(* src/Shell/AnswerExtractor.cpp:296-443.                                  *)
(* ======================================================================= *)
\* formulas
Atom(l) == [connective |-> "LITERAL", literal |-> l]
Not(f) == [connective |-> "NOT", uarg |-> f]
Exists(vs, f) == [connective |-> "EXISTS", vars |-> vs, qarg |-> f]
And(fs) == [connective |-> "AND", args |-> fs]

\* Flattening::flatten: nested conjunctions become one conjunction and
\* directly nested quantifiers of one kind become one quantifier
RECURSIVE flatten(_)
RECURSIVE FlattenArgs(_, _)
SpliceAnd(f) == IF f.connective = "AND" THEN f.args ELSE <<f>>
FlattenArgs(fs, k) ==
  IF k > Len(fs) THEN <<>> ELSE SpliceAnd(flatten(fs[k])) \o FlattenArgs(fs, k + 1)
MergeExists(vs, g) ==
  IF g.connective = "EXISTS" THEN Exists(vs \o g.vars, g.qarg) ELSE Exists(vs, g)
flatten(f) ==
  IF f.connective = "NOT" THEN Not(flatten(f.uarg))
  ELSE IF f.connective = "EXISTS" THEN MergeExists(f.vars, flatten(f.qarg))
  ELSE IF f.connective = "AND" THEN And(FlattenArgs(f.args, 1))
  ELSE f

\* units: formula units and clauses, with their input type and inference
FormulaUnit(f, inputType, rule, parents) ==
  [isClause |-> FALSE, formula |-> f, inputType |-> inputType, rule |-> rule,
   parents |-> parents]
ClauseUnit(lits, inputType, rule, parents) ==
  [isClause |-> TRUE, lits |-> lits, inputType |-> inputType, rule |-> rule,
   parents |-> parents]

\* predicates are pairs: an ordinary predicate <<name, 0>>, or <<"ans", k>>,
\* the k-th predicate added by addNamePredicate
Qa == Lit(<<"q", 0>>, TRUE, <<K("a")>>)
Qx == Lit(<<"q", 0>>, TRUE, <<X1>>)
Sx == Lit(<<"s", 0>>, TRUE, <<X2>>)

(* --------------------------- addAnswerLiterals ------------------------- *)
\* Signature::addNamePredicate and markAnswerPredicate (lines 309-311)
FreshPredicate(sig) == <<"ans", Cardinality(DOMAIN sig) + 1>>
AddAnswerPredicate(sig, vcnt) ==
  MapPut(sig, FreshPredicate(sig), [arity |-> vcnt, answerPredicate |-> TRUE])

\* mutant of getAnswerLiteral: the literal is built over the first variable only
getAnswerLiteralFirstVar(sig, vs) ==
  [signature |-> AddAnswerPredicate(sig, 1),
   literal |-> Lit(FreshPredicate(sig), TRUE, <<V(vs[1])>>)]

\* lines 296-313: the signature with the new predicate, and the literal
getAnswerLiteral(sig, vs) ==
  [signature |-> AddAnswerPredicate(sig, Len(vs)),
   literal |-> Lit(FreshPredicate(sig), TRUE, [i \in 1..Len(vs) |-> V(vs[i])])]

\* lines 319-328: the units that get an answer literal
FitsAnswerLiteral(unit) ==
  /\ ~unit.isClause
  /\ unit.inputType = "CONJECTURE"
  /\ unit.formula.connective = "NOT"
  /\ unit.formula.uarg.connective = "EXISTS"

\* lines 334-346, al the result of getAnswerLiteral
WithAnswerLiteral(unit, al) ==
  FormulaUnit(
    flatten(Not(Exists(unit.formula.uarg.vars,
                       And(<<Atom(al.literal), unit.formula.uarg.qarg>>)))),
    unit.inputType, "ANSWER_LITERAL", <<unit>>)

\* the pass so far: the list, the signature, the units created
Replaced(r, k, al) ==
  [units |-> [r.units EXCEPT ![k] = WithAnswerLiteral(r.units[k], al)],
   signature |-> al.signature,
   made |-> Append(r.made, WithAnswerLiteral(r.units[k], al))]

\* lines 315-349 and 358-361 for the k-th unit of the list
tryAddingAnswerLiteral(r, k) ==
  IF FitsAnswerLiteral(r.units[k])
  THEN Replaced(r, k, getAnswerLiteral(r.signature, r.units[k].formula.uarg.vars))
  ELSE r

\* lines 355-362
RECURSIVE addAnswerLiterals(_, _)
addAnswerLiterals(r, k) ==
  IF k > Len(r.units) THEN r ELSE addAnswerLiterals(tryAddingAnswerLiteral(r, k), k + 1)

(* ------------------------------ onNewClause ---------------------------- *)
\* lines 365-372
isAnswerLiteral(sig, lit) == lit.pred \in DOMAIN sig /\ sig[lit.pred].answerPredicate

\* lines 411-421: the clause {ans(X0,..,Xn-1)}
ResolverClause(sig, pred) ==
  ClauseUnit(<<Lit(pred, TRUE, [i \in 1..sig[pred].arity |-> V(i - 1)])>>,
             "AXIOM", "ANSWER_LITERAL", <<>>)

\* mutant of getResolverClause: _resolverClauses is not looked up
getResolverClauseUncached(r, sig, pred) ==
  [resolverClauses |-> MapPut(r.resolverClauses, pred, ResolverClause(sig, pred)),
   premises |-> <<ResolverClause(sig, pred)>> \o r.premises,
   made |-> Append(r.made, ResolverClause(sig, pred))]

\* lines 400-425; r holds _resolverClauses, the premises so far and the
\* units created
getResolverClause(r, sig, pred) ==
  IF pred \in DOMAIN r.resolverClauses
  THEN [r EXCEPT !.premises = <<r.resolverClauses[pred]>> \o @]
  ELSE [resolverClauses |-> MapPut(r.resolverClauses, pred, ResolverClause(sig, pred)),
        premises |-> <<ResolverClause(sig, pred)>> \o r.premises,
        made |-> Append(r.made, ResolverClause(sig, pred))]

\* lines 435-438
RECURSIVE ResolvingPremises(_, _, _, _)
ResolvingPremises(r, sig, cl, i) ==
  IF i > Len(cl.lits) THEN r
  ELSE ResolvingPremises(getResolverClause(r, sig, cl.lits[i].pred), sig, cl, i + 1)

\* lines 440-442, r the result of the loop
RefutationOf(r, cl) ==
  [r EXCEPT !.made = Append(@, ClauseUnit(<<>>, cl.inputType, "UNIT_RESULTING_RESOLUTION",
                                          r.premises))]

\* lines 427-443: the last unit made is the refutation
getRefutation(rc, sig, cl) ==
  RefutationOf(
    ResolvingPremises([resolverClauses |-> rc, premises |-> <<cl>>, made |-> <<>>],
                      sig, cl, 1),
    cl)

\* mutant of Captures: the splits of the clause are not looked at
CapturesDespiteSplits(sig, cl) ==
  /\ cl.noProp
  /\ \A i \in 1..Len(cl.lits) : isAnswerLiteral(sig, cl.lits[i])

\* lines 378-387: the clause is captured
Captures(sig, cl) ==
  /\ cl.noProp
  /\ cl.noSplits
  /\ \A i \in 1..Len(cl.lits) : isAnswerLiteral(sig, cl.lits[i])

(* ----------------------------- tryGetAnswer ---------------------------- *)
\* Stack::Iterator, the iterator of _answers: from the top of the stack down
StackIterator(st) == Reverse(st)

\* mutant of tryGetAnswerFrom: the last clause with one literal is taken
tryGetAnswerFromLast(it, k, ans) ==
  IF \A j \in k..Len(it) : Len(it[j].lits) # 1
  THEN [result |-> FALSE, answer |-> ans]
  ELSE [result |-> TRUE,
        answer |-> ans \o it[CHOOSE j \in k..Len(it) :
                                  /\ Len(it[j].lits) = 1
                                  /\ \A i \in (j + 1)..Len(it) : Len(it[i].lits) # 1
                                ].lits[1].args]

\* lines 281-293: the loop over the clauses the iterator it still holds
RECURSIVE tryGetAnswerFrom(_, _, _)
tryGetAnswerFrom(it, k, ans) ==
  IF k > Len(it) THEN [result |-> FALSE, answer |-> ans]
  ELSE IF Len(it[k].lits) # 1 THEN tryGetAnswerFrom(it, k + 1, ans)
  ELSE [result |-> TRUE, answer |-> ans \o it[k].lits[1].args]

\* lines 276-294
tryGetAnswer(st, ans) == tryGetAnswerFrom(StackIterator(st), 1, ans)

(* ------------------------- the units and clauses ----------------------- *)
InputFormula(f, inputType) == FormulaUnit(f, inputType, "INPUT", <<>>)
\* the conjectures not exists X1. q(X1) and not exists X1,X2. (q(X1) and s(X2)),
\* the axiom not exists X1. q(X1), the conjectures exists X1. q(X1) and
\* not q(a), and the conjecture clause {q(X1)}
InputUnits ==
  { InputFormula(Not(Exists(<<1>>, Atom(Qx))), "CONJECTURE"),
    InputFormula(Not(Exists(<<1, 2>>, And(<<Atom(Qx), Atom(Sx)>>))), "CONJECTURE"),
    InputFormula(Not(Exists(<<1>>, Atom(Qx))), "AXIOM"),
    InputFormula(Exists(<<1>>, Atom(Qx)), "CONJECTURE"),
    InputFormula(Not(Atom(Qa)), "CONJECTURE"),
    ClauseUnit(<<Qx>>, "CONJECTURE", "INPUT", <<>>) }
UnitLists == SeqsUpTo(InputUnits, MaxUnits)

\* the literals of the clauses handed to onNewClause: q(a), and for every
\* predicate of the signature its literal over the constant a, of either polarity
NewLiterals(sig) ==
  {Qa} \cup {Lit(p, pos, [i \in 1..sig[p].arity |-> K("a")]) :
               p \in DOMAIN sig, pos \in BOOLEAN}
NewClauses(sig) ==
  {[lits |-> ls, noProp |-> np, noSplits |-> ns, inputType |-> "NEGATED_CONJECTURE"] :
     ls \in {<<>>} \cup {<<l>> : l \in NewLiterals(sig)}
              \cup {<<l[1], l[2]>> : l \in NewLiterals(sig) \X NewLiterals(sig)},
     np \in BOOLEAN, ns \in BOOLEAN}

\* the clauses a later run captures: for every answer predicate the literal
\* over (b, a, ..), in clauses of none, one or two literals
LaterLiterals(sig) ==
  {Lit(p, TRUE, [i \in 1..sig[p].arity |-> K(IF i = 1 THEN "b" ELSE "a")]) :
     p \in {q \in DOMAIN sig : sig[q].answerPredicate}}
LaterClauses(sig) ==
  {[lits |-> ls, noProp |-> TRUE, noSplits |-> TRUE, inputType |-> "NEGATED_CONJECTURE"] :
     ls \in {<<>>} \cup {<<l>> : l \in LaterLiterals(sig)}
              \cup {<<l, l>> : l \in LaterLiterals(sig)}}
\* the answer stacks tryGetAnswer is called with
GivenAnswers == {<<>>, <<K("c")>>}

AnsInit ==
  /\ units \in UnitLists
  /\ signature = EmptyMap
  /\ answers = <<>>
  /\ resolverClauses = EmptyMap
  /\ refutation = <<>>
  /\ unitsMade = <<>>
  /\ passes = 0
  /\ seen = <<>>
  /\ direct = NoAnswerCall
  /\ SplitIdle
  /\ CompIdle
  /\ GoalIdle
  /\ LaterIdle

otherThanAns == <<splitVars, compVars, goalVars, laterVars>>

\* AnswerLiteralManager::addAnswerLiterals: the one pass over the list, made
\* before any clause is formed
AddAnswerLiterals ==
  /\ passes = 0
  /\ seen = <<>>
  /\ \E r \in {addAnswerLiterals([units |-> units, signature |-> signature, made |-> <<>>], 1)} :
       /\ units' = r.units
       /\ signature' = r.signature
       /\ unitsMade' = unitsMade \o r.made
  /\ passes' = passes + 1
  /\ UNCHANGED <<answers, resolverClauses, refutation, seen, direct>>
  /\ UNCHANGED otherThanAns

\* lines 389-393: the clause is pushed and the refutation thrown; r is the
\* result of getRefutation
Capture(cl, r) ==
  /\ answers' = Append(answers, cl)
  /\ resolverClauses' = r.resolverClauses
  /\ unitsMade' = unitsMade \o r.made
  /\ refutation' = <<r.made[Len(r.made)]>>

\* AnswerLiteralManager::onNewClause for the next clause formed. A clause
\* that is not captured leaves the manager as it was, and the exception
\* thrown for a captured one ends the run: a run is followed up to the
\* first clause. The manager is one static instance (getInstance) and
\* nothing empties _answers: after a run that captured a clause it serves
\* the next run, which is followed up to the clause it captures.
OnNewClause ==
  /\ \E cl \in IF seen = <<>> THEN NewClauses(signature)
               ELSE IF answers # <<>> /\ Len(answers) < MaxAnswers
               THEN LaterClauses(signature) ELSE {} :
       /\ seen' = <<cl>>
       /\ IF Captures(signature, cl)
          THEN Capture(cl, getRefutation(resolverClauses, signature, cl))
          ELSE UNCHANGED <<answers, resolverClauses, unitsMade, refutation>>
  /\ UNCHANGED <<units, signature, passes, direct>>
  /\ UNCHANGED otherThanAns

\* AnswerLiteralManager::tryGetAnswer called with an answer stack
TryGetAnswer ==
  /\ ~direct.called
  /\ \E given \in GivenAnswers :
       \E r \in {tryGetAnswer(answers, given)} :
         direct' = [called |-> TRUE, given |-> given, result |-> r.result,
                    answer |-> r.answer]
  /\ UNCHANGED <<units, signature, answers, resolverClauses, refutation, unitsMade,
                 passes, seen>>
  /\ UNCHANGED otherThanAns

AnsNext == AddAnswerLiterals \/ OnNewClause \/ TryGetAnswer
SpecAns == AnsInit /\ [][AnsNext]_vars

(* ------------------------------- C5 ------------------------------------ *)
\* a step of onNewClause: every other step of the manager is a pass or a
\* call of tryGetAnswer
OnNewClauseStep == passes' = passes /\ direct' = direct /\ seen' # <<>>
HasAnswerPredicate(lit) ==
  lit.pred \in DOMAIN signature /\ signature[lit.pred].answerPredicate
CapturedNow == answers' = Append(answers, seen'[1]) /\ refutation' # <<>>
NothingChanged ==
  UNCHANGED <<units, signature, answers, resolverClauses, refutation, unitsMade, passes>>

\* C5 as stated: the clause handed to onNewClause is captured (pushed on the
\* answer stack, refutation signalled) exactly when it has no propositional
\* part, no splits and only positive answer literals; otherwise nothing
\* changes.
AnswerCapturePositive ==
  [][OnNewClauseStep =>
       IF /\ seen'[1].noProp
          /\ seen'[1].noSplits
          /\ \A i \in 1..Len(seen'[1].lits) :
                HasAnswerPredicate(seen'[1].lits[i]) /\ seen'[1].lits[i].pos
       THEN CapturedNow
       ELSE NothingChanged]_vars

\* C5, amended: the clause is captured exactly when it has no propositional
\* part, no splits and only literals of answer predicates, of either
\* polarity; otherwise nothing changes.
AnswerCapture ==
  [][OnNewClauseStep =>
       IF /\ seen'[1].noProp
          /\ seen'[1].noSplits
          /\ \A i \in 1..Len(seen'[1].lits) : HasAnswerPredicate(seen'[1].lits[i])
       THEN CapturedNow
       ELSE NothingChanged]_vars

\* a clause with a negative answer literal was captured
AnswerCaptureWitness ==
  /\ refutation # <<>>
  /\ answers = seen
  /\ \E i \in 1..Len(seen[1].lits) : ~seen[1].lits[i].pos

(* ------------------------------- C6 ------------------------------------ *)
RECURSIVE Conjuncts(_)
Conjuncts(f) ==
  IF f.connective = "AND" THEN UNION {Conjuncts(f.args[k]) : k \in 1..Len(f.args)} ELSE {f}

NegatedExistentialConjecture(u) ==
  /\ ~u.isClause
  /\ u.inputType = "CONJECTURE"
  /\ u.formula.connective = "NOT"
  /\ u.formula.uarg.connective = "EXISTS"

\* a is the atom ans(x1,..,xn) of a predicate new in this pass, of arity n and
\* marked as answer predicate
NewAnswerAtom(a, vs) ==
  /\ a.connective = "LITERAL"
  /\ a.literal.pos
  /\ a.literal.pred \notin DOMAIN signature
  /\ a.literal.pred \in DOMAIN signature'
  /\ signature'[a.literal.pred].answerPredicate
  /\ signature'[a.literal.pred].arity = Len(vs)
  /\ a.literal.args = [i \in 1..Len(vs) |-> V(vs[i])]

\* n is u with the answer literal: not exists vars. (phi and ans(vars))
InjectedFrom(u, n) ==
  /\ ~n.isClause
  /\ n.inputType = u.inputType
  /\ n.rule = "ANSWER_LITERAL"
  /\ n.parents = <<u>>
  /\ n.formula.connective = "NOT"
  /\ n.formula.uarg.connective = "EXISTS"
  /\ n.formula.uarg.vars = u.formula.uarg.vars
  /\ n.formula.uarg.qarg.connective = "AND"
  /\ \E k \in 1..Len(n.formula.uarg.qarg.args) :
       /\ NewAnswerAtom(n.formula.uarg.qarg.args[k], u.formula.uarg.vars)
       /\ {n.formula.uarg.qarg.args[j] : j \in 1..Len(n.formula.uarg.qarg.args) \ {k}}
            = Conjuncts(u.formula.uarg.qarg)

\* C6: a pass of addAnswerLiterals keeps the length and order of the list,
\* replaces every conjecture formula not exists x1..xn. phi, in place, by
\* not exists x1..xn. (phi and ans(x1,..,xn)) derived from it by
\* ANSWER_LITERAL with the same input type, ans a new answer predicate of
\* arity n, and leaves every other unit as it is.
AnswerLiteralInjection ==
  [][passes' # passes =>
       /\ Len(units') = Len(units)
       /\ \A i \in 1..Len(units) :
            IF NegatedExistentialConjecture(units[i])
            THEN InjectedFrom(units[i], units'[i])
            ELSE units'[i] = units[i]]_vars

\* after a pass the list holds a conjecture with answer literal over two
\* variables and a unit left as it was
AnswerLiteralInjectionWitness ==
  /\ passes > 0
  /\ \E i, j \in 1..Len(units) :
       /\ units[i].rule = "ANSWER_LITERAL"
       /\ Len(units[i].formula.uarg.vars) = 2
       /\ units[j].rule = "INPUT"

(* ------------------------------- C7 ------------------------------------ *)
\* C7: every unit created by the splitter or by the answer-literal manager
\* has parents unless it is an input or an axiom unit.
CreatedUnitsHaveParents ==
  \A u \in Range(last.created) \cup Range(unitsMade) :
     u.parents # <<>> \/ u.inputType = "AXIOM" \/ u.rule = "INPUT"

\* the part of C7 about the splitter's new components only: they are the
\* units without parents that are neither inputs nor axioms
ParentlessAreNewComponents ==
  \A u \in Range(last.created) \cup Range(unitsMade) :
     u.parents # <<>> \/ u.inputType = "AXIOM" \/ u.rule = "INPUT"
       \/ (u.rule = "TAUTOLOGY_INTRODUCTION" /\ u.lits # <<>>)

(* ------------------------------- C15 ----------------------------------- *)
\* a step of AnswerLiteralManager::tryGetAnswer
TryGetAnswerStep == ~direct.called /\ direct'.called
\* the places, in the iteration order of _answers, of the clauses with
\* exactly one literal
UnitAnswers == {k \in 1..Len(answers) : Len(StackIterator(answers)[k].lits) = 1}

\* C15: tryGetAnswer returns true iff a captured answer clause has exactly one
\* literal; it then leaves on the answer stack what was there followed by
\* the arguments of that literal in argument order, the literal taken from
\* the first such clause in the iteration order of _answers; when it
\* returns false the answer stack is as it was given.
DirectAnswer ==
  [][TryGetAnswerStep =>
       /\ direct'.result = (UnitAnswers # {})
       /\ \A k \in UnitAnswers :
            (\A j \in UnitAnswers : k <= j) =>
               direct'.answer =
                 direct'.given \o
                   [i \in 1..arity(StackIterator(answers)[k].lits[1]) |->
                      StackIterator(answers)[k].lits[1].args[i]]
       /\ ~direct'.result => direct'.answer = direct'.given
       /\ answers' = answers]_vars

\* C15 witness: two clauses of one literal each, with different arguments,
\* and a clause of two literals were captured, and tryGetAnswer called with a
\* non-empty answer stack added the arguments of the one captured last
DirectAnswerWitness ==
  /\ direct.called
  /\ direct.result
  /\ direct.given # <<>>
  /\ Len(answers) = 2
  /\ Len(answers[1].lits) = 1
  /\ Len(answers[2].lits) = 1
  /\ answers[1].lits[1].args # answers[2].lits[1].args
  /\ arity(answers[2].lits[1]) = 2
  /\ direct.answer = direct.given \o answers[2].lits[1].args

(* ------------------------------- C16 ----------------------------------- *)
\* the variables bound in the recordings of the goals
RecordedBindings == UNION {Range(btData[i]) : i \in DOMAIN btData}

\* C16: while SubstBuilder::run searches, the open recordings are those of
\* the goals entered, one per goal, nested by depth, and every binding of the
\* substitution is in one of them; when run has returned, with either
\* outcome, no recording is open; when it has returned false the
\* substitution is as it was when run was called.
TrailDiscipline ==
  /\ pc = "start" => bdStack = <<>>
  /\ pc = "loop" =>
       /\ bdStack = [i \in 1..(depth + 1) |-> i]
       /\ DOMAIN subst = RecordedBindings
       /\ \A i \in DOMAIN btData : i > depth + 1 => btData[i] = <<>>
  /\ pc \in {"returned", "answered"} => bdStack = <<>>
  /\ result = "false" => subst = EmptyMap

\* C16 witness: run returned false on two goals after the first goal p(X1)
\* had been unified with a lemma, which bound X1
TrailDisciplineWitness ==
  /\ result = "false"
  /\ Len(goalLits) = 2
  /\ goalLits[1] = Lit("p", TRUE, <<X1>>)
  /\ getUnifications(lemmas, goalLits[1]) # <<>>
  /\ unifIts[1] = <<>>

(* ------------------------------- C20 ----------------------------------- *)
\* a step of onNewClause that captures the clause
CaptureStep == OnNewClauseStep /\ answers' # answers
\* the units made that are resolver clauses of the predicate pr
ResolverUnits(pr) ==
  {i \in 1..Len(unitsMade) :
     /\ unitsMade[i].isClause
     /\ unitsMade[i].rule = "ANSWER_LITERAL"
     /\ unitsMade[i].lits[1].pred = pr}
\* the positive unit clause ans(X0,..,Xn-1) over pairwise distinct variables
IdentityResolver(u, pr) ==
  /\ u.isClause
  /\ Len(u.lits) = 1
  /\ u.lits[1].pred = pr
  /\ isPositive(u.lits[1])
  /\ arity(u.lits[1]) = signature[pr].arity
  /\ \A i \in 1..arity(u.lits[1]) : isVar(u.lits[1].args[i])
  /\ \A i, j \in 1..arity(u.lits[1]) : u.lits[1].args[i] = u.lits[1].args[j] => i = j

\* C20: the refutation built for a captured answer clause A has no literal,
\* A's input type, the rule UNIT_RESULTING_RESOLUTION and as parents A and,
\* for each literal of A, the resolver clause of its predicate; the resolver
\* clause of an answer predicate is made once and stays the same, and it is
\* the positive unit clause ans(X0,..,Xn-1) over pairwise distinct
\* variables; a capturing onNewClause signals this refutation.
SyntheticRefutation ==
  /\ [][CaptureStep =>
          /\ Len(refutation') = 1
          /\ refutation'[1] = unitsMade'[Len(unitsMade')]
          /\ refutation'[1].isClause
          /\ refutation'[1].lits = <<>>
          /\ refutation'[1].inputType = seen'[1].inputType
          /\ refutation'[1].rule = "UNIT_RESULTING_RESOLUTION"
          /\ Len(refutation'[1].parents) = Len(seen'[1].lits) + 1
          /\ refutation'[1].parents[Len(seen'[1].lits) + 1] = seen'[1]
          /\ \A i \in 1..Len(seen'[1].lits) :
               /\ seen'[1].lits[i].pred \in DOMAIN resolverClauses'
               /\ refutation'[1].parents[Len(seen'[1].lits) + 1 - i]
                    = resolverClauses'[seen'[1].lits[i].pred]]_vars
  /\ [][\A pr \in DOMAIN resolverClauses :
          pr \in DOMAIN resolverClauses' /\ resolverClauses'[pr] = resolverClauses[pr]]_vars
  /\ [](\A pr \in DOMAIN resolverClauses :
          /\ IdentityResolver(resolverClauses[pr], pr)
          /\ Cardinality(ResolverUnits(pr)) = 1)

\* C20 witness: a second answer clause, of two literals, was captured whose
\* predicate had its resolver clause from the first capture
SyntheticRefutationWitness ==
  /\ Len(answers) = 2
  /\ Len(answers[1].lits) = 1
  /\ Len(answers[2].lits) = 2
  /\ answers[2].lits[1].pred = answers[1].lits[1].pred
  /\ signature[answers[1].lits[1].pred].arity = 2
  /\ refutation # <<>>
  /\ Len(refutation[1].parents) = 3
  /\ Cardinality(ResolverUnits(answers[1].lits[1].pred)) = 1

(* ------------------------------- C22 ----------------------------------- *)
\* every lemma the iterator of the current goal still holds fails to unify
AllLemmasFail ==
  \A k \in 1..Len(unifIts[depth + 1]) :
     ~unifyArgs(subst, goalLits[depth + 1], 0, unifIts[depth + 1][k], 1).ok
\* the call of nextGoalUnif made in this step tries the equality fallback
FallbackTried == ~triedEqUnif[depth + 1] /\ triedEqUnif'[depth + 1]
PositiveEquality(l) == isEquality(l) /\ isPositive(l)

\* C22: nextGoalUnif tries the two-sided unification of the goal's own
\* arguments only when the goal is a positive equality and every lemma of
\* the goal's iterator has been tried and failed, and once per entry into
\* the goal: the flag is cleared when the goal is entered, and once it is
\* set a call whose lemmas all fail fails; for any other goal literal the
\* fallback is never tried.
EqualityFallbackOrdering ==
  /\ [][pc = "loop" =>
          /\ FallbackTried =
               (PositiveEquality(goalLits[depth + 1]) /\ AllLemmasFail
                  /\ ~triedEqUnif[depth + 1])
          /\ FallbackTried => unifIts'[depth + 1] = <<>>
          /\ (triedEqUnif[depth + 1] /\ AllLemmasFail) => depth' # depth + 1
          /\ triedEqUnif[depth + 1] => triedEqUnif'[depth + 1]
          /\ (depth' = depth + 1 /\ pc' = "loop") => ~triedEqUnif'[depth + 2]]_vars
  /\ [][(pc = "start" /\ pc' = "loop") => ~triedEqUnif'[1]]_vars
  /\ [](\A i \in DOMAIN triedEqUnif : triedEqUnif[i] => PositiveEquality(goalLits[i]))

\* C22 witness: the search came back to a positive equality goal and tried
\* its fallback after its lemmas; the goal after it is a negative equality,
\* whose fallback was not tried
EqualityFallbackOrderingWitness ==
  /\ pc = "returned"
  /\ Len(goalLits) = 2
  /\ triedEqUnif[1]
  /\ ~triedEqUnif[2]
  /\ getUnifications(lemmas, goalLits[1]) # <<>>
  /\ ~PositiveEquality(goalLits[2])
  /\ isEquality(goalLits[2])

(* ------------------------------- C26 ----------------------------------- *)
\* the variables bound in the recordings of the goals above the current one
BindingsAbove == UNION {Range(btData[i]) : i \in 1..depth}

\* C26: whenever nextGoalUnif is about to try a lemma for the goal at the
\* current depth, the substitution binds exactly what the unifiers chosen
\* for the goals above it bound: nothing is left over from an alternative of
\* this goal or of a deeper one that was tried and given up.
SearchStateMatchesPath ==
  (pc = "loop" /\ unifIts[depth + 1] # <<>>) => DOMAIN subst = BindingsAbove

(* ======================================================================= *)
(* AnswerExtractor::getNeededUnits, src/Shell/AnswerExtractor.cpp:58-90.   *)
(* Units are numbered; unit 1 is the refutation and the parents of a unit *)
(* have greater numbers.                                                   *)
(* ======================================================================= *)
\* a unit of the inference store
StoredUnit(isClause, rule, parents, formula) ==
  [isClause |-> isClause, rule |-> rule, parents |-> parents, formula |-> formula]
\* InferenceStore::getParents: the parents, and through rule the inference rule
getParents(st, curr) == st[curr].parents

\* lines 76-77: the units that are premise clauses
IsPremiseClause(u) ==
  u.rule = "CLAUSIFY" \/ (u.isClause /\ u.rule \in {"INPUT", "NEGATED_CONJECTURE"})

\* the locals of getNeededUnits and its two results
Collecting(td, sn, prem, conj, ex) ==
  [toDo |-> td, seenUnits |-> sn, premiseClauses |-> prem, conjectures |-> conj,
   expanded |-> ex]

\* mutant of ExpandUnit: the unit is not put into seen
ExpandUnitUnseen(st, c, curr) ==
  Collecting(c.toDo \o getParents(st, curr), c.seenUnits,
             IF IsPremiseClause(st[curr]) THEN Append(c.premiseClauses, curr)
             ELSE c.premiseClauses,
             IF st[curr].rule = "NEGATED_CONJECTURE" THEN Append(c.conjectures, curr)
             ELSE c.conjectures,
             Append(c.expanded, curr))

\* lines 70-86: curr, just popped and not seen before, is expanded
ExpandUnit(st, c, curr) ==
  Collecting(c.toDo \o getParents(st, curr), c.seenUnits \cup {curr},
             IF IsPremiseClause(st[curr]) THEN Append(c.premiseClauses, curr)
             ELSE c.premiseClauses,
             IF st[curr].rule = "NEGATED_CONJECTURE" THEN Append(c.conjectures, curr)
             ELSE c.conjectures,
             Append(c.expanded, curr))

\* lines 68-72: one pass of the loop; curr is popped, and skipped if seen
CollectStep(st, c) ==
  IF c.toDo[Len(c.toDo)] \in c.seenUnits
  THEN [c EXCEPT !.toDo = SubSeq(@, 1, Len(@) - 1)]
  ELSE ExpandUnit(st, [c EXCEPT !.toDo = SubSeq(@, 1, Len(@) - 1)], c.toDo[Len(c.toDo)])

\* the conjecture not exists X1. p(X1)
ConjectureP == Not(Exists(<<1>>, Atom(Lit("p", TRUE, <<X1>>))))
\* what a unit other than the refutation is: an input clause or formula, a
\* negated conjecture formula or clause, or a clause got by clausification
UnitKinds ==
  {<<TRUE, "INPUT">>, <<FALSE, "INPUT">>, <<FALSE, "NEGATED_CONJECTURE">>,
   <<TRUE, "NEGATED_CONJECTURE">>, <<TRUE, "CLAUSIFY">>}
\* the inference DAGs over MaxProof units: every unit has its parents among
\* the units after it; the refutation is a clause got by resolution
ParentChoices ==
  {ps \in [1..MaxProof -> SUBSET (1..MaxProof)] :
     \A i \in 1..MaxProof : \A j \in ps[i] : j > i}
KindChoices ==
  {k \in [1..MaxProof -> UnitKinds \cup {<<TRUE, "RESOLUTION">>}] :
     /\ k[1] = <<TRUE, "RESOLUTION">>
     /\ \A i \in 2..MaxProof : k[i] \in UnitKinds}
ProofDag(ps, k) ==
  [i \in 1..MaxProof |-> StoredUnit(k[i][1], k[i][2], SetToSeq(ps[i]), ConjectureP)]
ProofDags == {ProofDag(ps, k) : ps \in ParentChoices, k \in KindChoices}

\* lines 62-66: getNeededUnits is called for the refutation
CollectStart(st) ==
  /\ store = st
  /\ toDo = <<1>>
  /\ seenUnits = {}
  /\ premiseClauses = <<>>
  /\ conjectures = <<>>
  /\ expanded = <<>>
  /\ cpc = "collect"

CollectInit ==
  /\ \E st \in ProofDags : CollectStart(st)
  /\ SplitIdle
  /\ CompIdle
  /\ GoalIdle
  /\ AnsIdle
  /\ AfterCollectIdle

otherThanCollect == <<splitVars, compVars, goalVars, ansVars, afterCollect>>

\* lines 68-87: one pass of the loop
CollectUnit ==
  /\ cpc = "collect"
  /\ toDo # <<>>
  /\ \E c \in {CollectStep(store, Collecting(toDo, seenUnits, premiseClauses,
                                               conjectures, expanded))} :
       /\ toDo' = c.toDo
       /\ seenUnits' = c.seenUnits
       /\ premiseClauses' = c.premiseClauses
       /\ conjectures' = c.conjectures
       /\ expanded' = c.expanded
  /\ UNCHANGED <<store, cpc>>
  /\ UNCHANGED otherThanCollect

\* line 68: toDo is empty, getNeededUnits returns
Collected ==
  /\ cpc = "collect"
  /\ toDo = <<>>
  /\ cpc' = "collected"
  /\ UNCHANGED <<store, toDo, seenUnits, premiseClauses, conjectures, expanded>>
  /\ UNCHANGED otherThanCollect

CollectNext == CollectUnit \/ Collected
\* the loop goes on as long as it can
SpecCollect == CollectInit /\ [][CollectNext]_vars /\ WF_vars(CollectNext)

(* ------------------------------- C23 ----------------------------------- *)
\* the units reachable from the refutation along parent links
RECURSIVE ReachableFrom(_)
ReachableFrom(U) ==
  IF \A u \in U : Range(store[u].parents) \subseteq U THEN U
  ELSE ReachableFrom(U \cup UNION {Range(store[u].parents) : u \in U})
Reachable == ReachableFrom({1})
OnceEach(s, U) ==
  /\ Range(s) = U
  /\ \A i, j \in 1..Len(s) : s[i] = s[j] => i = j

\* C23: getNeededUnits returns; it has then asked for the parents of each
\* unit reachable from the refutation exactly once, pushed each reachable
\* NEGATED_CONJECTURE unit exactly once onto the conjectures, and pushed onto
\* the premise clauses exactly once each reachable unit that has the rule
\* CLAUSIFY or is a clause with rule INPUT or NEGATED_CONJECTURE; at no time
\* is a unit collected that is not reachable from the refutation.
PremiseCollection ==
  /\ <>(cpc = "collected")
  /\ [](cpc = "collected" =>
          /\ OnceEach(expanded, Reachable)
          /\ OnceEach(conjectures,
                      {u \in Reachable : store[u].rule = "NEGATED_CONJECTURE"})
          /\ OnceEach(premiseClauses,
                      {u \in Reachable :
                         \/ store[u].rule = "CLAUSIFY"
                         \/ /\ store[u].isClause
                            /\ store[u].rule \in {"INPUT", "NEGATED_CONJECTURE"}}))
  /\ [](Range(expanded) \cup Range(conjectures) \cup Range(premiseClauses)
          \subseteq Reachable)

\* C23 witness: getNeededUnits has returned for a proof in which a negated
\* conjecture clause is a parent of two units
PremiseCollectionWitness ==
  /\ cpc = "collected"
  /\ \E u \in Reachable :
       /\ store[u].rule = "NEGATED_CONJECTURE"
       /\ store[u].isClause
       /\ Cardinality({v \in Reachable : u \in Range(store[v].parents)}) = 2

(* ======================================================================= *)
(* ConjunctionGoalAnswerExractor::tryGetAnswer,                            *)
(* src/Shell/AnswerExtractor.cpp:190-260: the needed units are collected,  *)
(* the conjecture is taken apart, and the goal search is run.              *)
(* ======================================================================= *)
\* mutant of SingleFormulaConjecture: several conjectures are let through
SomeFormulaConjecture(st, conj) == Len(conj) >= 1 /\ ~st[conj[1]].isClause

\* line 198
SingleFormulaConjecture(st, conj) == Len(conj) = 1 /\ ~st[conj[1]].isClause

\* lines 212-229: the goal literals of the body of the existential
IsGoalBody(form) ==
  \/ form.connective = "LITERAL"
  \/ /\ form.connective = "AND"
     /\ \A i \in 1..Len(form.args) : form.args[i].connective = "LITERAL"
GoalLitsOf(form) ==
  IF form.connective = "LITERAL" THEN <<form.literal>>
  ELSE [i \in 1..Len(form.args) |-> form.args[i].literal]

\* lines 203-210, form flattened: not exists vars. body
IsNegatedExistential(form) ==
  form.connective = "NOT" /\ form.uarg.connective = "EXISTS"

\* lines 198-229: whether the search is run, and on what
Rejecting == [ok |-> FALSE, answerVariables |-> <<>>, goalLits |-> <<>>]
GoalsOfFormula(form) ==
  IF IsNegatedExistential(form) /\ IsGoalBody(form.uarg.qarg)
  THEN [ok |-> TRUE, answerVariables |-> form.uarg.vars,
        goalLits |-> GoalLitsOf(form.uarg.qarg)]
  ELSE Rejecting
conjectureGoals(st, conj) ==
  IF SingleFormulaConjecture(st, conj)
  THEN GoalsOfFormula(flatten(st[conj[1]].formula))
  ELSE Rejecting

(* ---------------------------- the proofs ------------------------------- *)
Px == Lit("p", TRUE, <<X1>>)
Qx1 == Lit("q", TRUE, <<X1>>)
QofA == Lit("q", TRUE, <<K("a")>>)
\* the conjectures: not exists X1. p(X1); not exists X1. (p(X1) and q(X1));
\* not exists X2. exists X1. (q(X2) and p(X1)); exists X1. p(X1); not q(a);
\* not exists X1. (p(X1) and not q(X1)); not exists X1. not p(X1)
ConjectureShapes ==
  { ConjectureP,
    Not(Exists(<<1>>, And(<<Atom(Px), Atom(Qx1)>>))),
    Not(Exists(<<2>>, Exists(<<1>>, And(<<Atom(Lit("q", TRUE, <<X2>>)), Atom(Px)>>)))),
    Exists(<<1>>, Atom(Px)),
    Not(Atom(QofA)),
    Not(Exists(<<1>>, And(<<Atom(Px), Not(Atom(Qx1))>>))),
    Not(Exists(<<1>>, Not(Atom(Px)))) }
NoFormula == Atom(QofA)
Resolvent(parents) == StoredUnit(TRUE, "RESOLUTION", parents, NoFormula)
Clausified(parents) == StoredUnit(TRUE, "CLAUSIFY", parents, NoFormula)
NegatedConjecture(f) == StoredUnit(FALSE, "NEGATED_CONJECTURE", <<>>, f)
\* the proofs: the refutation from the clausified conjecture; from two
\* clauses of the one conjecture; from two conjectures; from a negated
\* conjecture clause; from an input clause
Refutations ==
  {<<Resolvent(<<2>>), Clausified(<<3>>), NegatedConjecture(f)>> : f \in ConjectureShapes}
    \cup {<<Resolvent(<<2, 3>>), Clausified(<<4>>), Clausified(<<4>>), NegatedConjecture(f)>> :
             f \in ConjectureShapes}
    \cup {<<Resolvent(<<2, 3>>), NegatedConjecture(ConjectureP), NegatedConjecture(f)>> :
             f \in ConjectureShapes}
    \cup {<<Resolvent(<<2>>), StoredUnit(TRUE, "NEGATED_CONJECTURE", <<>>, NoFormula)>>,
           <<Resolvent(<<2>>), StoredUnit(TRUE, "INPUT", <<>>, NoFormula)>>}
\* the lemma indexes the tabulation run can leave: over p(a), p(b), q(b)
ConjLemmaOrders ==
  {l \in LemmaOrders :
     Range(l) \subseteq {Lit("p", TRUE, <<K("a")>>), Lit("p", TRUE, <<K("b")>>),
                          Lit("q", TRUE, <<K("b")>>)}}

ConjInit ==
  /\ \E st \in Refutations : CollectStart(st)
  /\ SplitIdle
  /\ CompIdle
  /\ GoalIdle
  /\ AnsIdle
  /\ AfterCollectIdle

\* lines 198-229, no goal literals: tryGetAnswer returns false
Reject ==
  /\ cpc = "collected"
  /\ ~conjectureGoals(store, conjectures).ok
  /\ cpc' = "rejected"
  /\ UNCHANGED <<store, toDo, seenUnits, premiseClauses, conjectures, expanded>>
  /\ UNCHANGED <<splitVars, compVars, goalVars, ansVars, afterCollect>>

\* lines 198-241: the goal literals are built, the lemma index is got from
\* the tabulation run, and the SubstBuilder is constructed
StartSearch ==
  /\ cpc = "collected"
  /\ \E g \in {conjectureGoals(store, conjectures)} :
       /\ g.ok
       /\ goalLits' = g.goalLits
       /\ answerVariables' = g.answerVariables
       /\ btData' = [i \in 1..Len(g.goalLits) |-> <<>>]
       /\ unifIts' = [i \in 1..Len(g.goalLits) |-> <<>>]
       /\ triedEqUnif' = [i \in 1..Len(g.goalLits) |-> FALSE]
  /\ lemmas' \in ConjLemmaOrders
  /\ subst' = EmptyMap
  /\ pc' = "start"
  /\ cpc' = "search"
  /\ UNCHANGED <<bdStack, depth, result, answer>>
  /\ UNCHANGED <<store, toDo, seenUnits, premiseClauses, conjectures, expanded>>
  /\ UNCHANGED <<splitVars, compVars, ansVars, afterCollect>>

ConjNext == CollectUnit \/ Collected \/ Reject \/ StartSearch \/ GoalNext
SpecConj == ConjInit /\ [][ConjNext]_vars

(* ------------------------------- C21 ----------------------------------- *)
\* the negated conjecture units reachable from the refutation
ReachableConjectures == {u \in Reachable : store[u].rule = "NEGATED_CONJECTURE"}
\* a formula that is, flattened, the negation of an existential over a
\* literal or a conjunction of literals
ConjunctiveGoal(f) ==
  /\ flatten(f).connective = "NOT"
  /\ flatten(f).uarg.connective = "EXISTS"
  /\ \/ flatten(f).uarg.qarg.connective = "LITERAL"
     \/ /\ flatten(f).uarg.qarg.connective = "AND"
        /\ \A g \in Range(flatten(f).uarg.qarg.args) : g.connective = "LITERAL"
\* exactly one negated conjecture unit is reachable, and it is such a formula
AcceptedShape ==
  /\ Cardinality(ReachableConjectures) = 1
  /\ \A u \in ReachableConjectures :
       ~store[u].isClause /\ ConjunctiveGoal(store[u].formula)

\* C21: tryGetAnswer returns false without touching the answer stack unless
\* exactly one negated conjecture unit is reachable from the refutation, it
\* is a formula, and flattened it is the negation of an existential over a
\* literal or a conjunction of literals; and also when the goal search finds
\* no substitution. Only an accepted shape whose search succeeds yields an
\* answer.
RejectsOtherShapes ==
  /\ cpc \in {"rejected", "search"} => (cpc = "search") = AcceptedShape
  /\ cpc = "rejected" => answer = <<>> /\ pc = "idle" /\ result = "none"
  /\ result = "false" => answer = <<>>
  /\ pc = "answered" => result = "true" /\ AcceptedShape

\* C21 witness: the refutation depends on two negated conjecture formulas of
\* the accepted shape and was rejected; or the one conjecture was taken
\* apart into two goals and the search found no substitution
RejectsOtherShapesWitness ==
  \/ /\ cpc = "rejected"
     /\ Cardinality(ReachableConjectures) = 2
     /\ \A u \in ReachableConjectures :
          ~store[u].isClause /\ ConjunctiveGoal(store[u].formula)
  \/ /\ cpc = "search"
     /\ result = "false"
     /\ Len(goalLits) = 2
     /\ lemmas # <<>>

(* ======================================================================= *)
(* Shell::InterpolantsNew, src/Shell/InterpolantsNew.cpp: the splitting    *)
(* function (348-444), the A-subproofs (97-147), their boundaries          *)
(* (154-241) and the union-find helpers (570-597). Unit 1 is the           *)
(* refutation. A failed assert either ends the run or, in a build without  *)
(* assertions, is passed over.                                             *)
(* ======================================================================= *)
Inference(parents, color) == [parents |-> parents, color |-> color]
Colors == {"LEFT", "RIGHT"}
Noted(failed, name) == IF failed = "none" THEN name ELSE failed

(* -------------------- computeSplittingFunction ------------------------- *)
\* line 363
LoopAssertion(pr, ic, u) ==
  \/ pr[u].parents = <<>> /\ ic[u] \in Colors
  \/ pr[u].parents # <<>> /\ ic[u] = "INVALID"
\* lines 368-382: the premises pushed
UnvisitedParents(pr, ic, u) == SelectSeq(pr[u].parents, LAMBDA q : ic[q] = "INVALID")
\* lines 402-416
ColoredPremises(pr, u) == SelectSeq(pr[u].parents, LAMBDA q : pr[q].color \in Colors)
\* lines 423-434
RECURSIVE Difference(_, _)
Difference(ic, ps) ==
  IF ps = <<>> THEN 0
  ELSE (IF ic[Head(ps)] = "LEFT" THEN 1 ELSE -1) + Difference(ic, Tail(ps))
\* lines 393-436: the colour given to u
SplitColor(pr, ic, u) ==
  IF pr[u].color \in Colors THEN pr[u].color
  ELSE IF ColoredPremises(pr, u) # <<>> THEN pr[Head(ColoredPremises(pr, u))].color
  ELSE IF Difference(ic, pr[u].parents) > 0 THEN "LEFT" ELSE "RIGHT"
\* lines 363 and 389: the assertion of this pass of the loop that fails
FailingAssert(pr, ic, u) ==
  IF ~LoopAssertion(pr, ic, u) THEN "loop"
  ELSE IF UnvisitedParents(pr, ic, u) = <<>> /\ ic[u] # "INVALID" THEN "uncoloured"
  ELSE "none"

\* the proofs: every unit but the refutation is a premise of an earlier one
\* the parents of a unit are later units, in any order
Orders(U) == {s \in [1..Cardinality(U) -> U] : \A i, j \in DOMAIN s : s[i] = s[j] => i = j}
ParentLists(i, n) == UNION {Orders(U) : U \in SUBSET ((i + 1)..n)}
RECURSIVE ParentsFrom(_, _)
ParentsFrom(i, n) ==
  IF i > n THEN {<<>>}
  ELSE {<<p>> \o rest : p \in ParentLists(i, n), rest \in ParentsFrom(i + 1, n)}
DagShapes(n) ==
  {ps \in ParentsFrom(1, n) :
     /\ ps[1] # <<>>
     /\ \A j \in 2..n : \E i \in 1..(j - 1) : j \in Range(ps[i])}
Dags == UNION {DagShapes(n) : n \in 2..MaxNodes}
\* the units' own colours: an axiom has the colour of its part or none
OwnColors(ps, ic) ==
  {c \in [DOMAIN ps -> Colors \cup {"TRANSPARENT"}] :
     \A u \in DOMAIN ps : ps[u] = <<>> => c[u] \in {ic[u], "TRANSPARENT"}}
\* the colouring on entry: the axioms have their part, the rest is uncoloured
AxiomColorings(ps) ==
  {ic \in [DOMAIN ps -> Colors \cup {"INVALID"}] :
     \A u \in DOMAIN ps : (ic[u] = "INVALID") = (ps[u] # <<>>)}
ProofOf(ps, c) == [u \in DOMAIN ps |-> Inference(ps[u], c[u])]

otherThanInterp == <<splitVars, compVars, goalVars, ansVars, collectVars, afterInterp>>

ColourInit ==
  /\ \E ps \in Dags : \E ic \in AxiomColorings(ps) : \E c \in OwnColors(ps, ic) :
       /\ proof = ProofOf(ps, c)
       /\ inheritedColor = ic
       /\ timesColoured = [u \in DOMAIN ps |-> 0]
       /\ unitsToRepresentative = [u \in DOMAIN ps |-> 0]
  /\ stack = <<1>>
  /\ failedAssert = "none"
  /\ queue = <<>>
  /\ processed = {}
  /\ bottomBoundaries = {}
  /\ topBoundaries = {}
  /\ ipc = "colouring"
  /\ SplitIdle
  /\ CompIdle
  /\ GoalIdle
  /\ AnsIdle
  /\ CollectIdle
  /\ AfterInterpIdle

\* lines 359-442: one pass of the loop
ColourStep ==
  /\ ipc = "colouring"
  /\ stack # <<>>
  /\ \E u \in {stack[Len(stack)]} :
       /\ failedAssert' = Noted(failedAssert, FailingAssert(proof, inheritedColor, u))
       /\ IF UnvisitedParents(proof, inheritedColor, u) # <<>>
          THEN /\ stack' = stack \o UnvisitedParents(proof, inheritedColor, u)
               /\ UNCHANGED <<inheritedColor, timesColoured>>
          ELSE /\ inheritedColor' =
                    [inheritedColor EXCEPT ![u] = SplitColor(proof, inheritedColor, u)]
               /\ timesColoured' = [timesColoured EXCEPT ![u] = @ + 1]
               /\ stack' = SubSeq(stack, 1, Len(stack) - 1)
  /\ UNCHANGED <<proof, unitsToRepresentative, queue, processed, bottomBoundaries,
                 topBoundaries, ipc>>
  /\ UNCHANGED otherThanInterp

\* lines 363 and 389: an assertion fails and ends the run
ColourAbort ==
  /\ ipc = "colouring"
  /\ stack # <<>>
  /\ FailingAssert(proof, inheritedColor, stack[Len(stack)]) # "none"
  /\ failedAssert' =
       Noted(failedAssert, FailingAssert(proof, inheritedColor, stack[Len(stack)]))
  /\ ipc' = "aborted"
  /\ UNCHANGED <<proof, inheritedColor, stack, timesColoured, unitsToRepresentative,
                 queue, processed, bottomBoundaries, topBoundaries>>
  /\ UNCHANGED otherThanInterp

\* line 359: the stack is empty
ColouringDone ==
  /\ ipc = "colouring"
  /\ stack = <<>>
  /\ ipc' = "coloured"
  /\ UNCHANGED <<proof, inheritedColor, stack, timesColoured, failedAssert,
                 unitsToRepresentative, queue, processed, bottomBoundaries,
                 topBoundaries>>
  /\ UNCHANGED otherThanInterp

ColourNext == ColourStep \/ ColourAbort \/ ColouringDone
SpecColour == ColourInit /\ [][ColourNext]_vars

(* ------------------------------- C25 ----------------------------------- *)
\* C25: in computeSplittingFunction, on every proof whose axioms are
\* coloured LEFT or RIGHT and whose other units are uncoloured, the unit on
\* top of the stack is a coloured axiom or an uncoloured unit with parents
\* (no assertion fails), no unit is coloured twice, and at the end every
\* unit is coloured LEFT or RIGHT, also when a unit is a premise of several
\* units. Violated: a unit with parents that is a premise of two units, one
\* of them a premise of the other, is pushed twice and coloured twice.
EachInferenceColouredOnce ==
  /\ failedAssert = "none"
  /\ ipc = "colouring" /\ stack # <<>> =>
       LoopAssertion(proof, inheritedColor, stack[Len(stack)])
  /\ \A u \in DOMAIN timesColoured : timesColoured[u] <= 1
  /\ ipc = "coloured" => \A u \in DOMAIN inheritedColor : inheritedColor[u] \in Colors

(* ----------------- computeSubproofs, computeBoundaries ----------------- *)
\* lines 570-580; 0 stands for a unit without an entry
RECURSIVE root(_, _)
root(utr, unit) == IF utr[unit] = 0 THEN unit ELSE root(utr, utr[unit])
\* lines 587-597
merge(utr, unit1, unit2) ==
  IF root(utr, unit1) # root(utr, unit2)
  THEN [utr EXCEPT ![root(utr, unit2)] = root(utr, unit1)]
  ELSE utr
\* lines 130-142: the subproof of the unit is merged with those of its A-premises
RECURSIVE MergePremises(_, _, _, _)
MergePremises(utr, ic, u, ps) ==
  IF ps = <<>> THEN utr
  ELSE MergePremises(IF ic[Head(ps)] = "LEFT" THEN merge(utr, u, Head(ps)) ELSE utr,
                     ic, u, Tail(ps))
\* lines 128-143
MergedAt(pr, ic, utr, u) ==
  IF ic[u] = "LEFT" THEN MergePremises(utr, ic, u, pr[u].parents) ELSE utr
\* lines 188-205: the top boundaries, as pairs (representative, unit)
TopBoundaries(pr, ic, utr) ==
  {<<root(utr, e[1]), e[2]>> : e \in
     {e \in (DOMAIN pr) \X (DOMAIN pr) :
        ic[e[1]] = "LEFT" /\ e[2] \in Range(pr[e[1]].parents) /\ ic[e[2]] # "LEFT"}}
\* lines 209-229: the bottom boundaries
BottomBoundaries(pr, ic, utr) ==
  {<<root(utr, e[2]), e[2]>> : e \in
     {e \in (DOMAIN pr) \X (DOMAIN pr) :
        ic[e[1]] # "LEFT" /\ e[2] \in Range(pr[e[1]].parents) /\ ic[e[2]] = "LEFT"}}
\* lines 234-238: the refutation as bottom boundary
RefutationBoundary(ic) == IF ic[1] = "LEFT" THEN {<<1, 1>>} ELSE {}

\* the colourings the pass can be handed: the axioms have their part
Colorings(ps) ==
  {ic \in [DOMAIN ps -> Colors \cup {"INVALID"}] :
     \A u \in DOMAIN ps : ps[u] = <<>> => ic[u] \in Colors}

SubproofInit ==
  /\ \E ps \in Dags : \E ic \in Colorings(ps) :
       /\ proof = ProofOf(ps, [u \in DOMAIN ps |-> "TRANSPARENT"])
       /\ inheritedColor = ic
       /\ timesColoured = [u \in DOMAIN ps |-> 0]
       /\ unitsToRepresentative = [u \in DOMAIN ps |-> 0]
  /\ stack = <<>>
  /\ failedAssert = "none"
  /\ queue = <<1>>
  /\ processed = {}
  /\ bottomBoundaries = {}
  /\ topBoundaries = {}
  /\ ipc = "subproofs"
  /\ SplitIdle
  /\ CompIdle
  /\ GoalIdle
  /\ AnsIdle
  /\ CollectIdle
  /\ AfterInterpIdle

\* lines 106-144: one pass of the loop of computeSubproofs
SubproofStep ==
  /\ ipc = "subproofs"
  /\ queue # <<>>
  /\ \E u \in {Head(queue)} :
       /\ processed' = processed \cup {u}
       /\ queue' = Tail(queue) \o
                     SelectSeq(proof[u].parents, LAMBDA q : q \notin processed \cup {u})
       /\ unitsToRepresentative' =
            MergedAt(proof, inheritedColor, unitsToRepresentative, u)
  /\ UNCHANGED <<proof, inheritedColor, stack, timesColoured, failedAssert,
                 bottomBoundaries, topBoundaries, ipc>>
  /\ UNCHANGED otherThanInterp

\* lines 154-241: computeBoundaries; the assertion of line 236 holds, or the
\* build has no assertions
Boundaries ==
  /\ ipc = "subproofs"
  /\ queue = <<>>
  /\ failedAssert' =
       IF inheritedColor[1] = "LEFT" /\ root(unitsToRepresentative, 1) # 1
       THEN Noted(failedAssert, "root") ELSE failedAssert
  /\ topBoundaries' = TopBoundaries(proof, inheritedColor, unitsToRepresentative)
  /\ bottomBoundaries' =
       BottomBoundaries(proof, inheritedColor, unitsToRepresentative)
         \cup RefutationBoundary(inheritedColor)
  /\ ipc' = "boundaries"
  /\ UNCHANGED <<proof, inheritedColor, stack, timesColoured, unitsToRepresentative,
                 queue, processed>>
  /\ UNCHANGED otherThanInterp

\* lines 234-236: the assertion fails and ends the run
BoundariesAbort ==
  /\ ipc = "subproofs"
  /\ queue = <<>>
  /\ inheritedColor[1] = "LEFT"
  /\ root(unitsToRepresentative, 1) # 1
  /\ failedAssert' = Noted(failedAssert, "root")
  /\ ipc' = "aborted"
  /\ UNCHANGED <<proof, inheritedColor, stack, timesColoured, unitsToRepresentative,
                 queue, processed, bottomBoundaries, topBoundaries>>
  /\ UNCHANGED otherThanInterp

SubproofNext == SubproofStep \/ Boundaries \/ BoundariesAbort
SpecSubproofs == SubproofInit /\ [][SubproofNext]_vars

(* ------------------------------- C24 ----------------------------------- *)
\* C24: whenever the refutation is coloured LEFT, after computeSubproofs it
\* is the union-find root of its own A-subproof, on every proof and every
\* colouring, so the assertion in computeBoundaries holds and the refutation
\* is a bottom boundary of the subproof it represents. Violated: a LEFT unit
\* processed after the refutation, whose LEFT premise is already merged into
\* the refutation's subproof, becomes the root of that subproof.
RefutationIsRoot ==
  /\ failedAssert = "none"
  /\ ipc = "subproofs" /\ queue = <<>> /\ inheritedColor[1] = "LEFT" =>
       root(unitsToRepresentative, 1) = 1
  /\ ipc = "boundaries" /\ inheritedColor[1] = "LEFT" =>
       /\ root(unitsToRepresentative, 1) = 1
       /\ <<1, 1>> \in bottomBoundaries

(* ======================================================================= *)
(* SAT::ClauseSharing, src/SAT/ClauseSharing.cpp. A SATClause holds its    *)
(* literals at the indices 0..length-1; what a read at the index length    *)
(* gives is not determined by the clause, and is kept here as the word     *)
(* behind the literals.                                                    *)
(* ======================================================================= *)
SATClause(lits, beyond) == [lits |-> lits, beyond |-> beyond, destroyed |-> FALSE]
length(c) == Len(c.lits)
\* (*c)[i], i from 0; the index length is behind the literals
LiteralAt(c, i) == IF i < length(c) THEN c.lits[i + 1] ELSE c.beyond

\* lines 46-50: a hash of the bytes of the literals 0..length-1
RECURSIVE SumOf(_)
SumOf(s) == IF s = <<>> THEN 0 ELSE Head(s) + SumOf(Tail(s))
hash(c) == SumOf(c.lits) % 4

\* lines 52-63: the loop runs i from length down to 0
equals(c1, c2) ==
  /\ length(c1) = length(c2)
  /\ \A i \in 0..length(c1) : LiteralAt(c1, i) = LiteralAt(c2, i)

\* Set::insert of _storage: the clause kept that the Hasher takes for equal
\* to c, or c after it is put in
Found(cls, st, c) == {e \in st : hash(cls[e]) = hash(cls[c]) /\ equals(cls[e], cls[c])}
StorageInsert(cls, st, c) ==
  IF Found(cls, st, c) # {}
  THEN [storage |-> st, res |-> CHOOSE e \in Found(cls, st, c) : TRUE]
  ELSE [storage |-> st \cup {c}, res |-> c]

\* the literal sequences and the words behind them
SatLiteralLists == {<<>>, <<1>>, <<2>>, <<1, 2>>, <<2, 1>>}
BeyondWords == {0, 1}

otherThanShare ==
  <<splitVars, compVars, goalVars, ansVars, collectVars, interpVars, helperVars>>

ShareInit ==
  /\ satClauses = <<>>
  /\ storage = {}
  /\ res = 0
  /\ SplitIdle
  /\ CompIdle
  /\ GoalIdle
  /\ AnsIdle
  /\ CollectIdle
  /\ InterpIdle
  /\ HelperIdle

\* lines 13-20: a new clause is made and handed to insert
Insert ==
  /\ Len(satClauses) < MaxInserts
  /\ \E lits \in SatLiteralLists, beyond \in BeyondWords :
       \E cls \in {Append(satClauses, SATClause(lits, beyond))} :
         \E o \in {StorageInsert(cls, storage, Len(cls))} :
           /\ storage' = o.storage
           /\ res' = o.res
           /\ satClauses' =
                IF o.res # Len(cls) THEN [cls EXCEPT ![Len(cls)].destroyed = TRUE]
                ELSE cls
  /\ UNCHANGED otherThanShare

\* lines 22-33: the clauses kept are destroyed and the storage is made anew
wipe ==
  /\ storage # {}
  /\ satClauses' = [i \in DOMAIN satClauses |->
                      IF i \in storage THEN [satClauses[i] EXCEPT !.destroyed = TRUE]
                      ELSE satClauses[i]]
  /\ storage' = {}
  /\ UNCHANGED res
  /\ UNCHANGED otherThanShare

ShareNext == Insert \/ wipe
SpecShare == ShareInit /\ [][ShareNext]_vars

(* ------------------------------- C29 ----------------------------------- *)
\* the step is an insert of the clause made last, and what was kept before
InsertStep == Len(satClauses') = Len(satClauses) + 1
SameLiterals(c) == {e \in storage : satClauses'[e].lits = satClauses'[c].lits}

\* C29: the storage holds at most one clause per literal sequence; insert
\* returns the clause kept, and destroys its argument, whenever a clause kept
\* has the same length and the same literals at the indices 0..length-1,
\* and otherwise keeps and returns its argument. Violated: equals reads the
\* index length too, so two clauses with the same literals and different
\* words behind them are both kept.
SharingCanonical ==
  [][/\ \A c1, c2 \in storage' :
          satClauses'[c1].lits = satClauses'[c2].lits => c1 = c2
     /\ InsertStep =>
          \E c \in {Len(satClauses')} :
            IF SameLiterals(c) # {}
            THEN res' \in SameLiterals(c) /\ satClauses'[c].destroyed
                 /\ storage' = storage
            ELSE res' = c /\ ~satClauses'[c].destroyed
                 /\ storage' = storage \cup {c}]_vars

(* ======================================================================= *)
(* Api::ApiHelper and Api::FBHelper, src/Api/Helper.cpp:409-501. A helper  *)
(* holds a pointer _obj to an FBHelperCore, 0 for the null pointer; a core *)
(* counts its references and deletes itself when the count falls to zero.  *)
(* ======================================================================= *)
HelperObject(live, obj) == [live |-> live, obj |-> obj]
HelperCore(n) == [refCtr |-> n, deleted |-> FALSE]
Helping(hs, cs) == [helpers |-> hs, cores |-> cs]

\* FBHelperCore::incRef and decRef
incRef(cs, c) == [cs EXCEPT ![c].refCtr = @ + 1]
decRef(cs, c) ==
  [cs EXCEPT ![c] = [refCtr |-> @.refCtr - 1, deleted |-> @.deleted \/ @.refCtr = 1]]

\* lines 442-454
updRef(hs, cs, h, inc) ==
  IF hs[h].obj # 0
  THEN IF inc THEN incRef(cs, hs[h].obj) ELSE decRef(cs, hs[h].obj)
  ELSE cs

\* mutant of assignHelper: the old core is released before the new one is held
assignHelperReleaseFirst(hs, cs, h, g) ==
  Helping([hs EXCEPT ![h].obj = hs[g].obj],
          updRef(hs, updRef(hs, cs, h, FALSE), g, TRUE))

\* lines 426-432: operator=(const ApiHelper&), h = g
assignHelper(hs, cs, h, g) ==
  Helping([hs EXCEPT ![h].obj = hs[g].obj],
          updRef(hs, updRef(hs, cs, g, TRUE), h, FALSE))

\* lines 434-440: operator=(FBHelperCore*), h = c
assignCore(hs, cs, h, c) ==
  Helping([hs EXCEPT ![h].obj = c], updRef(hs, incRef(cs, c), h, FALSE))

\* lines 418-424: the copy constructor, h made from g
copyHelper(hs, cs, h, g) ==
  Helping([hs EXCEPT ![h] = HelperObject(TRUE, hs[g].obj)],
          updRef([hs EXCEPT ![h] = HelperObject(TRUE, hs[g].obj)], cs, h, TRUE))

\* lines 487-493: FBHelper::FBHelper, with a new core
newFBHelper(hs, cs, h) ==
  Helping([hs EXCEPT ![h] = HelperObject(TRUE, Len(cs) + 1)],
          updRef([hs EXCEPT ![h] = HelperObject(TRUE, Len(cs) + 1)],
                 Append(cs, HelperCore(0)), h, TRUE))

\* lines 411-416: the destructor
destroyHelper(hs, cs, h) ==
  Helping([hs EXCEPT ![h].live = FALSE], updRef(hs, cs, h, FALSE))

\* lines 470-480: operator->
arrow(hs, h) == IF hs[h].obj # 0 THEN hs[h].obj ELSE "DefaultHelperCore::instance"

LiveHelpers == {h \in DOMAIN helpers : helpers[h].live}
DeadHelpers == {h \in DOMAIN helpers : ~helpers[h].live}
LiveCores == {c \in DOMAIN cores : ~cores[c].deleted}

otherThanHelper ==
  <<splitVars, compVars, goalVars, ansVars, collectVars, interpVars, shareVars>>

HelperInit ==
  /\ helpers = [h \in 1..MaxHelpers |-> HelperObject(FALSE, 0)]
  /\ cores = <<>>
  /\ helperOp = <<>>
  /\ SplitIdle
  /\ CompIdle
  /\ GoalIdle
  /\ AnsIdle
  /\ CollectIdle
  /\ InterpIdle
  /\ ShareIdle

Become(o, op) ==
  /\ helpers' = o.helpers
  /\ cores' = o.cores
  /\ helperOp' = op
  /\ UNCHANGED otherThanHelper

\* line 409
Construct ==
  \E h \in DeadHelpers :
    Become(Helping([helpers EXCEPT ![h] = HelperObject(TRUE, 0)], cores),
           <<"ApiHelper", h>>)

ConstructFB ==
  /\ Len(cores) < MaxCores
  /\ \E h \in DeadHelpers : Become(newFBHelper(helpers, cores, h), <<"FBHelper", h>>)

CopyConstruct ==
  \E h \in DeadHelpers, g \in LiveHelpers :
    Become(copyHelper(helpers, cores, h, g), <<"copy", h, g>>)

Assign ==
  \E h \in LiveHelpers, g \in LiveHelpers :
    Become(assignHelper(helpers, cores, h, g), <<"assign", h, g>>)

\* the core assigned is one in use or one just made
AssignCore ==
  \E h \in LiveHelpers :
    \/ \E c \in LiveCores : Become(assignCore(helpers, cores, h, c), <<"assignCore", h, c>>)
    \/ /\ Len(cores) < MaxCores
       /\ Become(assignCore(helpers, Append(cores, HelperCore(0)), h, Len(cores) + 1),
                 <<"assignCore", h, Len(cores) + 1>>)

Destroy ==
  \E h \in LiveHelpers : Become(destroyHelper(helpers, cores, h), <<"destroy", h>>)

HelperNext == Construct \/ ConstructFB \/ CopyConstruct \/ Assign \/ AssignCore \/ Destroy
SpecHelper == HelperInit /\ [][HelperNext]_vars

(* ------------------------------- C30 ----------------------------------- *)
PointingTo(c) == {h \in LiveHelpers : helpers[h].obj = c}

\* C30: after every sequence of constructions, copy constructions,
\* assignments from a helper (also from itself), assignments of a core and
\* destructions, the reference count of each core is the number of live
\* helpers that point to it, a core a live helper points to is not deleted
\* and its count is not zero, and a helper without a core dereferences to
\* the DefaultHelperCore singleton.
HelperRefCounting ==
  /\ \A c \in DOMAIN cores : cores[c].refCtr = Cardinality(PointingTo(c))
  /\ \A h \in LiveHelpers :
       IF helpers[h].obj = 0
       THEN arrow(helpers, h) = "DefaultHelperCore::instance"
       ELSE /\ ~cores[helpers[h].obj].deleted
            /\ cores[helpers[h].obj].refCtr > 0
            /\ arrow(helpers, h) = helpers[h].obj

\* C30 witness: a helper that alone holds its core was assigned to itself
HelperRefCountingWitness ==
  /\ Len(helperOp) = 3
  /\ helperOp[1] = "assign"
  /\ helperOp[2] = helperOp[3]
  /\ helpers[helperOp[2]].obj # 0
  /\ cores[helpers[helperOp[2]].obj].refCtr = 1
  /\ \E g \in LiveHelpers : helpers[g].obj = 0
====
